---- MODULE Spec2Model ----
(***************************************************************************)
(* Workflow generators of the stable-matching scheduler repository.        *)
(*                                                                         *)
(* The model follows the generator scripts under src/generators: each      *)
(* script's main() is one action that validates the command line, calls    *)
(* the workflow builder and leaves four CSV files in the data directory.   *)
(*                                                                         *)
(* Numbers.  Python floats are modelled in fixed point, in thousandths     *)
(* (Fixed(15) is 15.0).  A piece of text written to a file is a token      *)
(* [pfx, num, dec]: pfx is the literal prefix ("t", "vm", "#", ""), and    *)
(* num/10^dec is the number printed after it with dec decimals, so that    *)
(* "t7" is Tok("t",7,0), "0.0" is Tok("",0,1) and "0.00" is Tok("",0,2).   *)
(* A line is a sequence of tokens and a file a sequence of lines.          *)
(*                                                                         *)
(* Randomness.  The scripts draw from Python's module-level generator.     *)
(* Its hidden state is the variable rng: a process starts with an          *)
(* arbitrary state (seeded by the operating system) and every draw         *)
(* advances it.                                                            *)
(***************************************************************************)
EXTENDS Integers, Sequences, FiniteSets, TLC

VARIABLES
    rng,            \* state of the module-level random generator
    prog,           \* script run last ("none" before the first run)
    args,           \* its parsed command line
    exit_status,    \* its exit status (-1 before the first run)
    builder,        \* the builder main() invoked ("none" if it never got there)
    tasks,          \* all_tasks / tasks of that builder
    edges,          \* the (from, to) pairs it wrote to dag.csv
    total_jobs,     \* its up-front estimate handed to the resource builder
    vm_instances,   \* VM instances of the resource builder
    files,          \* data directory: the four CSV files
    written,        \* names of the files written by the last run
    prev,           \* prog, args and files of the run before the last one
    runs,           \* number of script runs so far
    phase,          \* "generate", then "analysis" once modify_vm_count_to_5 ran
    analysis,       \* what simple_dag_check found in the files (NoAnalysis
                    \* until it has looked at the files of the last run)
    cwd,            \* working directory of the process
    impact,         \* analyze_ccr_impact: where its loop stands
    bandwidths      \* the bandwidth list workflow_to_csv builds and drops

vars == <<rng, prog, args, exit_status, builder, tasks, edges, total_jobs,
          vm_instances, files, written, prev, runs, phase, analysis,
          cwd, impact, bandwidths>>

----------------------------------------------------------------------------
(* Bounds of the exploration *)

MaxImages == 3          \* --images explored up to this value
MaxSites == 2           \* --sites
MaxSgt == 2             \* --sgt-variations
MaxPsa == 2             \* --psa-filters
MaxSegments == 5        \* --segments
MaxTemplates == 2       \* --templates
MaxSamples == 4         \* --samples
MaxAnalyses == 2        \* --analyses
MaxRuns == 2            \* script runs in one behaviour
NumSeeds == 2           \* initial generator states explored per run
RandMod == 16           \* resolution of a random draw: random() is k/RandMod
MaxCheckTasks == 3      \* tasks of a task.csv handed to simple_dag_check
MaxCheckEdges == 3      \* edge lines of a dag.csv handed to simple_dag_check
MaxPoints == 2          \* --num_points of the CCR analysis explored up to this
MaxNodes == 3           \* nodes of a workflow handed to workflow_to_csv
MaxArcs == 2            \* edges of a workflow handed to workflow_to_csv

----------------------------------------------------------------------------
(* Text and numbers *)

Fixed(n) == n * 1000

Tok(p, n, d) == [pfx |-> p, num |-> n, dec |-> d]

Max(a, b) == IF a >= b THEN a ELSE b
Min(a, b) == IF a <= b THEN a ELSE b

\* f"{x:.1f}" and f"{x:.2f}" of a non-negative float x (thousandths)
FormatFloat(x, d) ==
    IF d = 1 THEN Tok("", (x + 50) \div 100, 1)
             ELSE Tok("", (x + 5) \div 10, 2)

\* f"{x}" of a float: shortest repr, always with a decimal point
FloatRepr(x) ==
    IF x % 100 = 0 THEN Tok("", x \div 100, 1)
    ELSE IF x % 10 = 0 THEN Tok("", x \div 10, 2)
    ELSE Tok("", x, 3)

\* f"{n}" of an int
IntStr(n) == Tok("", n, 0)

\* f"t{id}" and f"vm{id}"
TaskName(id) == Tok("t", id, 0)
VmName(id) == Tok("vm", id, 0)

\* the "#" that opens a header or comment line
Hash == Tok("#", 0, 0)

NoFile == <<<<Tok("<absent>", 0, 0)>>>>

FileNames == {"task.csv", "dag.csv", "vm.csv", "processing_capacity.csv"}

\* random.random(): advance the generator; the new state is the draw
RandomNext(s) == (s + 7) % RandMod

\* the state after k draws: RandomNext applied k times
RandomAt(s, k) == (s + 7 * k) % RandMod

\* random.uniform(a, b) for the draw r: a + (b - a) * random()
Uniform(a, b, r) == a + ((b - a) * r) \div RandMod

Seeds == 0 .. (NumSeeds - 1)

RECURSIVE Flatten(_)
Flatten(ss) == IF ss = <<>> THEN <<>> ELSE Head(ss) \o Flatten(Tail(ss))

----------------------------------------------------------------------------
(* Resource builders: the loops shared by every create_vm_preferences_file *)

\* for vm_type, config in vm_configs: for i in range(count): append
RECURSIVE ExpandInstances(_, _, _)
ExpandInstances(configs, counts, vm_id) ==
    IF configs = <<>> THEN <<>>
    ELSE [i \in 1 .. Head(counts) |->
              [vm_id |-> vm_id + i - 1,
               type |-> Head(configs).type,
               cpu |-> Head(configs).cpu,
               processing_capacity |-> Head(configs).capacity]]
         \o ExpandInstances(Tail(configs), Tail(counts), vm_id + Head(counts))


----------------------------------------------------------------------------
(* creareMontage.py: tables *)

MontageVmConfigs ==
    << [type |-> "vm_small",  cpu |-> 2,  capacity |-> 15],
       [type |-> "vm_medium", cpu |-> 4,  capacity |-> 30],
       [type |-> "vm_large",  cpu |-> 8,  capacity |-> 60],
       [type |-> "vm_xlarge", cpu |-> 16, capacity |-> 120] >>

MontageTaskTypes ==
    [mProject    |-> [duration |-> 8],
     mDiffFit    |-> [duration |-> 3],
     mConcatFit  |-> [duration |-> 2],
     mBgModel    |-> [duration |-> 4],
     mBackground |-> [duration |-> 6],
     mAdd        |-> [duration |-> 10],
     mJPEG       |-> [duration |-> 3]]

\* vm_distribution of creareMontage.create_vm_preferences_file
MontageVmDistribution(jobs) ==
    << Max(1, jobs \div 18), Max(1, jobs \div 12),
       Max(1, jobs \div 8),  Max(1, jobs \div 6) >>

\* MontageBandwidth that starts from the faster VM of the pair
MontageBandwidthOfFaster(i, j, vm1, vm2, r) ==
    IF i = j THEN FormatFloat(Fixed(0), 1)
    ELSE LET base_bandwidth == Fixed(Max(vm1.cpu, vm2.cpu) * 75)
             bandwidth == base_bandwidth + Uniform(Fixed(-15), Fixed(15), r)
         IN FormatFloat(Max(Fixed(20), bandwidth), 1)

\* one cell of the Montage bandwidth matrix; r is the draw of this cell
MontageBandwidth(i, j, vm1, vm2, r) ==
    IF i = j THEN FormatFloat(Fixed(0), 1)
    ELSE LET base_bandwidth == Fixed(Min(vm1.cpu, vm2.cpu) * 75)
             bandwidth == base_bandwidth + Uniform(Fixed(-15), Fixed(15), r)
         IN FormatFloat(Max(Fixed(20), bandwidth), 1)

----------------------------------------------------------------------------
(* creareDAG.py (CyberShake): tables *)

CyberShakeVmConfigs ==
    << [type |-> "vm_small",  cpu |-> 1, capacity |-> 10],
       [type |-> "vm_medium", cpu |-> 2, capacity |-> 20],
       [type |-> "vm_large",  cpu |-> 4, capacity |-> 40],
       [type |-> "vm_xlarge", cpu |-> 8, capacity |-> 80] >>

CyberShakeTaskTypes ==
    [PreCVM      |-> [duration |-> 2],
     GenCVM      |-> [duration |-> 3],
     GenSGT      |-> [duration |-> 5],
     PSA         |-> [duration |-> 4],
     ZipPSA      |-> [duration |-> 2],
     PostProcess |-> [duration |-> 3]]

\* vm_distribution of creareDAG.create_vm_preferences_file
CyberShakeVmDistribution(jobs) ==
    << Max(1, jobs \div 20), Max(1, jobs \div 15),
       Max(1, jobs \div 10), Max(1, jobs \div 8) >>

\* one cell of the CyberShake bandwidth matrix
CyberShakeBandwidth(i, j, vm1, vm2, r) ==
    IF i = j THEN FormatFloat(Fixed(0), 1)
    ELSE LET base_bandwidth == Fixed(Min(vm1.cpu, vm2.cpu) * 50)
             bandwidth == base_bandwidth + Uniform(Fixed(-10), Fixed(10), r)
         IN FormatFloat(Max(Fixed(10), bandwidth), 1)

----------------------------------------------------------------------------
(* creareLIGO.py: tables.  The LIGO and Epigenomics configurations have no *)
(* cpu entry; the instances carry cpu 0, which nothing reads.              *)

LigoVmConfigs ==
    << [type |-> "cpu_intensive", count |-> 4,  cpu |-> 0, capacity |-> Fixed(15)],
       [type |-> "cpu_medium",    count |-> 6,  cpu |-> 0, capacity |-> Fixed(30)],
       [type |-> "cpu_high",      count |-> 8,  cpu |-> 0, capacity |-> Fixed(60)],
       [type |-> "cpu_ultra",     count |-> 12, cpu |-> 0, capacity |-> Fixed(120)],
       [type |-> "gpu_standard",  count |-> 3,  cpu |-> 0, capacity |-> Fixed(200)],
       [type |-> "gpu_high",      count |-> 2,  cpu |-> 0, capacity |-> Fixed(400)] >>

LigoTaskTypes ==
    [DataFind     |-> [size |-> Fixed(2)],
     TemplateBank |-> [size |-> Fixed(15)],
     Inspiral     |-> [size |-> Fixed(8)],
     Coincidence  |-> [size |-> Fixed(12)],
     TrigBank     |-> [size |-> Fixed(20)],
     Injection    |-> [size |-> Fixed(5)],
     Thinca       |-> [size |-> Fixed(25)],
     PostProcess  |-> [size |-> Fixed(10)]]

\* "gpu" in type is membership in the gpu types, "ultra" in type and
\* "mem" in type likewise

\* LigoBandwidth without the test for the diagonal
LigoBandwidthDrawn(i, j, vm1, vm2, r) ==
    IF (vm1.type \in {"gpu_standard", "gpu_high"})
       /\ (vm2.type \in {"gpu_standard", "gpu_high"})
         THEN FormatFloat(Uniform(Fixed(800), Fixed(1200), r), 2)
    ELSE IF (vm1.type \in {"gpu_standard", "gpu_high"})
            \/ (vm2.type \in {"gpu_standard", "gpu_high"})
         THEN FormatFloat(Uniform(Fixed(400), Fixed(800), r), 2)
    ELSE IF (vm1.type \in {"cpu_ultra", "bio_ultra", "mem_ultra"})
            /\ (vm2.type \in {"cpu_ultra", "bio_ultra", "mem_ultra"})
         THEN FormatFloat(Uniform(Fixed(600), Fixed(1000), r), 2)
    ELSE FormatFloat(Uniform(Fixed(200), Fixed(600), r), 2)

\* one cell of the LIGO bandwidth matrix
LigoBandwidth(i, j, vm1, vm2, r) ==
    IF i = j THEN FormatFloat(Fixed(0), 2)
    ELSE IF (vm1.type \in {"gpu_standard", "gpu_high"})
            /\ (vm2.type \in {"gpu_standard", "gpu_high"})
         THEN FormatFloat(Uniform(Fixed(800), Fixed(1200), r), 2)
    ELSE IF (vm1.type \in {"gpu_standard", "gpu_high"})
            \/ (vm2.type \in {"gpu_standard", "gpu_high"})
         THEN FormatFloat(Uniform(Fixed(400), Fixed(800), r), 2)
    ELSE IF (vm1.type \in {"cpu_ultra", "bio_ultra", "mem_ultra"})
            /\ (vm2.type \in {"cpu_ultra", "bio_ultra", "mem_ultra"})
         THEN FormatFloat(Uniform(Fixed(600), Fixed(1000), r), 2)
    ELSE FormatFloat(Uniform(Fixed(200), Fixed(600), r), 2)

----------------------------------------------------------------------------
(* creareEpigenomics.py: tables *)

EpigenomicsVmConfigs ==
    << [type |-> "bio_standard",  count |-> 6,  cpu |-> 0, capacity |-> Fixed(20)],
       [type |-> "bio_medium",    count |-> 8,  cpu |-> 0, capacity |-> Fixed(40)],
       [type |-> "bio_high",      count |-> 10, cpu |-> 0, capacity |-> Fixed(80)],
       [type |-> "bio_ultra",     count |-> 8,  cpu |-> 0, capacity |-> Fixed(160)],
       [type |-> "mem_intensive", count |-> 4,  cpu |-> 0, capacity |-> Fixed(100)],
       [type |-> "mem_ultra",     count |-> 2,  cpu |-> 0, capacity |-> Fixed(200)] >>

EpigenomicsTaskTypes ==
    [FastQC               |-> [size |-> Fixed(3)],
     Trimming             |-> [size |-> Fixed(5)],
     Alignment            |-> [size |-> Fixed(15)],
     Sorting              |-> [size |-> Fixed(8)],
     Deduplication        |-> [size |-> Fixed(6)],
     PeakCalling          |-> [size |-> Fixed(12)],
     Annotation           |-> [size |-> Fixed(10)],
     DifferentialAnalysis |-> [size |-> Fixed(18)],
     Visualization        |-> [size |-> Fixed(7)],
     FinalReport          |-> [size |-> Fixed(25)]]

\* one cell of the Epigenomics bandwidth matrix
EpigenomicsBandwidth(i, j, vm1, vm2, r) ==
    IF i = j THEN FormatFloat(Fixed(0), 2)
    ELSE IF (vm1.type \in {"mem_intensive", "mem_ultra"})
            /\ (vm2.type \in {"mem_intensive", "mem_ultra"})
         THEN FormatFloat(Uniform(Fixed(700), Fixed(1100), r), 2)
    ELSE IF (vm1.type \in {"mem_intensive", "mem_ultra"})
            \/ (vm2.type \in {"mem_intensive", "mem_ultra"})
         THEN FormatFloat(Uniform(Fixed(400), Fixed(700), r), 2)
    ELSE IF (vm1.type \in {"cpu_ultra", "bio_ultra", "mem_ultra"})
            /\ (vm2.type \in {"cpu_ultra", "bio_ultra", "mem_ultra"})
         THEN FormatFloat(Uniform(Fixed(500), Fixed(900), r), 2)
    ELSE FormatFloat(Uniform(Fixed(200), Fixed(500), r), 2)

----------------------------------------------------------------------------
(* creareMontage.create_csv_files_ccr: one cell of its bandwidth matrix *)

CcrBandwidth(i, j, vm1, vm2, r) ==
    IF i = j THEN FormatFloat(Fixed(0), 1)
    ELSE FormatFloat(Uniform(Fixed(20), Fixed(30), r), 1)

----------------------------------------------------------------------------
(* The vm.csv loop, the same in every generator:                           *)
(*   for i, vm1: row = [vm1 id]; for j, vm2: 0.0 if i == j else a draw     *)
(* A draw is consumed for every off-diagonal cell, in row-major order.     *)

Bandwidth(kind, i, j, vm1, vm2, r) ==
    CASE kind = "montage"     -> MontageBandwidth(i, j, vm1, vm2, r)
      [] kind = "cybershake"  -> CyberShakeBandwidth(i, j, vm1, vm2, r)
      [] kind = "ligo"        -> LigoBandwidth(i, j, vm1, vm2, r)
      [] kind = "epigenomics" -> EpigenomicsBandwidth(i, j, vm1, vm2, r)
      [] kind = "ccr"         -> CcrBandwidth(i, j, vm1, vm2, r)

\* draws made before the loop reaches cell (i, j) of an n x n matrix: n - 1
\* for each earlier row, and one for each earlier off-diagonal cell of row i
DrawsBefore(n, i, j) == (i - 1) * (n - 1) + (IF j > i THEN j - 2 ELSE j - 1)

\* row i of the matrix: the VM's name, then one cell for every VM
BandwidthRow(kind, vms, i, r0) ==
    <<VmName(vms[i].vm_id)>> \o
    [j \in 1 .. Len(vms) |->
        LET before == RandomAt(r0, DrawsBefore(Len(vms), i, j))
        IN Bandwidth(kind, i, j, vms[i], vms[j],
                     IF i = j THEN before ELSE RandomNext(before))]

\* VmCsv whose header counts the VMs from 0
VmCsvHeaderFromZero(kind, vms, r0) ==
    << <<Hash>> \o [k \in 1 .. Len(vms) |-> VmName(vms[k].vm_id - 1)] >> \o
    [i \in 1 .. Len(vms) |-> BandwidthRow(kind, vms, i, r0)]

\* vm.csv: header "# vm1 vm2 ...", then the matrix rows
VmCsv(kind, vms, r0) ==
    << <<Hash>> \o [k \in 1 .. Len(vms) |-> VmName(vms[k].vm_id)] >> \o
    [i \in 1 .. Len(vms) |-> BandwidthRow(kind, vms, i, r0)]

----------------------------------------------------------------------------
(* Task bookkeeping shared by the builders.  A builder's state st is a     *)
(* record of its local variables: tasks, task_id, the lists of ids it      *)
(* keeps, and ids, the ids assigned by the loop that ran last.             *)

\* AppendTasks with the id taken after the increment instead of before it
AppendTasksIdAfterIncrement(st, type, size, deps) ==
    [st EXCEPT
        !.tasks = st.tasks \o
                    [k \in 1 .. Len(deps) |->
                        [id |-> st.task_id + k, type |-> type,
                         size |-> size, dependencies |-> deps[k]]],
        !.task_id = st.task_id + Len(deps),
        !.ids = [k \in 1 .. Len(deps) |-> st.task_id + k]]

\* "for ...: task = {id: task_id, ...}; tasks.append(task);
\*  ids.append(task_id); task_id += 1", once for every entry of deps
AppendTasks(st, type, size, deps) ==
    [st EXCEPT
        !.tasks = st.tasks \o
                    [k \in 1 .. Len(deps) |->
                        [id |-> st.task_id + k - 1, type |-> type,
                         size |-> size, dependencies |-> deps[k]]],
        !.task_id = st.task_id + Len(deps),
        !.ids = [k \in 1 .. Len(deps) |-> st.task_id + k - 1]]

\* "for task in tasks: for dep_id in task['dependencies']: (dep_id, task id)"
DependencyEdges(ts) ==
    Flatten([k \in 1 .. Len(ts) |->
                [d \in 1 .. Len(ts[k].dependencies) |->
                    <<ts[k].dependencies[d], ts[k].id>>]])

\* dag.csv body: f"t{from} t{to}"
DagLines(es) == [k \in 1 .. Len(es) |-> <<TaskName(es[k][1]), TaskName(es[k][2])>>]

\* a comment line: "#" followed by free text
Comment(text) == <<Hash, Tok(text, 0, 0)>>

\* processing_capacity.csv: f"vm{id} {capacity:.1f}" per instance in
\* creareMontage and creareDAG; in creareLIGO and creareEpigenomics a
\* comment line, then f"vm{id} {capacity}"
CapacityCsv(kind, vms) ==
    CASE kind \in {"montage", "cybershake"} ->
            [k \in 1 .. Len(vms) |->
                <<VmName(vms[k].vm_id),
                  FormatFloat(Fixed(vms[k].processing_capacity), 1)>>]
      [] kind = "ligo" ->
            <<Comment("VM processing capacities for LIGO workflow")>> \o
            [k \in 1 .. Len(vms) |->
                <<VmName(vms[k].vm_id), FloatRepr(vms[k].processing_capacity)>>]
      [] kind = "epigenomics" ->
            <<Comment("VM processing capacities for Epigenomics workflow")>> \o
            [k \in 1 .. Len(vms) |->
                <<VmName(vms[k].vm_id), FloatRepr(vms[k].processing_capacity)>>]

\* what create_vm_preferences_file leaves: the instances and its two files
VmFiles(kind, vms, r0) ==
    [vm_instances |-> vms,
     vm_csv |-> VmCsv(kind, vms, r0),
     pc_csv |-> CapacityCsv(kind, vms),
     rng |-> RandomAt(r0, Len(vms) * (Len(vms) - 1))]

\* what a builder hands back: its lists and the files it wrote
Workflow(name, jobs, vm, ts, es, task_csv, dag_csv) ==
    [builder |-> name,
     total_jobs |-> jobs,
     vm_instances |-> vm.vm_instances,
     tasks |-> ts,
     edges |-> es,
     files |-> [f \in FileNames |->
         CASE f = "task.csv" -> task_csv
           [] f = "dag.csv" -> dag_csv
           [] f = "vm.csv" -> vm.vm_csv
           [] f = "processing_capacity.csv" -> vm.pc_csv],
     rng |-> vm.rng]

----------------------------------------------------------------------------
(* creareMontage.py: create_vm_preferences_file and create_montage_workflow *)

montage_create_vm_preferences_file(jobs, r0) ==
    VmFiles("montage",
            ExpandInstances(MontageVmConfigs, MontageVmDistribution(jobs), 1), r0)

\* st is [tasks, task_id, ids, task_dependencies, mbackground_tasks]
MontageInit ==
    [tasks |-> <<>>, task_id |-> 1, ids |-> <<>>, task_dependencies |-> <<>>,
     mbackground_tasks |-> <<>>]

\* mProject: no dependency
MontageProject(st) ==
    AppendTasks(st, "mProject", MontageTaskTypes["mProject"].duration, << <<>> >>)

\* MontageStep with the new task's own id where the previous task's belongs
MontageStepOnItself(st, type) ==
    [AppendTasks(st, type, MontageTaskTypes[type].duration, << <<st.task_id>> >>)
        EXCEPT !.task_dependencies = Append(@, <<st.task_id, st.task_id>>)]

\* a task that depends on the task created just before it, and their edge
MontageStep(st, type) ==
    [AppendTasks(st, type, MontageTaskTypes[type].duration, << <<st.ids[1]>> >>)
        EXCEPT !.task_dependencies = Append(@, <<st.ids[1], st.task_id>>)]

\* mBackground, remembered in mbackground_tasks
MontageBackground(st) ==
    [MontageStep(st, "mBackground")
        EXCEPT !.mbackground_tasks = Append(@, st.task_id)]

\* body of "for img_id in range(num_images)"
MontageImage(st) ==
    MontageBackground(
        MontageStep(MontageStep(MontageStep(MontageProject(st),
                                            "mDiffFit"), "mConcatFit"), "mBgModel"))

\* the loop: n more images from the state st.  (Ids start at 1, so the test
\* on task_id never holds; it has st computed before the next iteration.)
RECURSIVE MontageImages(_, _)
MontageImages(n, st) ==
    IF n <= 0 \/ st.task_id < 1 THEN st ELSE MontageImages(n - 1, MontageImage(st))

\* MontageAdd that depends on the mBackground of the last image alone
MontageAddOnLast(st) ==
    [AppendTasks(st, "mAdd", MontageTaskTypes["mAdd"].duration,
                 << <<st.ids[1]>> >>)
        EXCEPT !.task_dependencies = Append(@, <<st.ids[1], st.task_id>>)]

\* mAdd, which depends on every mBackground
MontageAdd(st) ==
    [AppendTasks(st, "mAdd", MontageTaskTypes["mAdd"].duration,
                 <<st.mbackground_tasks>>)
        EXCEPT !.task_dependencies =
                   @ \o [k \in 1 .. Len(st.mbackground_tasks) |->
                            <<st.mbackground_tasks[k], st.task_id>>]]

\* MontageFinal that stops after mAdd
MontageFinalWithoutJpeg(st) == MontageAdd(st)

\* mAdd and mJPEG, after the image loop
MontageFinal(st) == MontageStep(MontageAdd(st), "mJPEG")

\* MontageWrite whose task.csv adds the state of the generator to a duration
MontageWriteDrawn(jobs, vm, w) ==
    Workflow("create_montage_workflow", jobs, vm, w.tasks, w.task_dependencies,
             [k \in 1 .. Len(w.tasks) |->
                 <<TaskName(w.tasks[k].id), IntStr(w.tasks[k].size + vm.rng)>>],
             DagLines(w.task_dependencies))

\* task.csv (f"t{id} {duration}") and dag.csv of the finished lists w
MontageWrite(jobs, vm, w) ==
    Workflow("create_montage_workflow", jobs, vm, w.tasks, w.task_dependencies,
             [k \in 1 .. Len(w.tasks) |->
                 <<TaskName(w.tasks[k].id), IntStr(w.tasks[k].size)>>],
             DagLines(w.task_dependencies))

create_montage_workflow(num_images, r0) ==
    MontageWrite(num_images * 5 + 1 + 1,
                 montage_create_vm_preferences_file(num_images * 5 + 1 + 1, r0),
                 MontageFinal(MontageImages(num_images, MontageInit)))

----------------------------------------------------------------------------
(* creareDAG.py: create_vm_preferences_file and create_cybershake_workflow *)
(* (its tasks are written here with the field names id, type and size for  *)
(* the source's task_id, task_type and duration)                           *)

cybershake_create_vm_preferences_file(jobs, r0) ==
    VmFiles("cybershake",
            ExpandInstances(CyberShakeVmConfigs, CyberShakeVmDistribution(jobs), 1), r0)

\* PreCVM has id 1, and current_task_id = 2 follows.
\* st is [tasks, task_id, ids, task_dependencies, gencvm_task_id,
\*        site_sgt_task_ids]
CyberShakeInit ==
    [tasks |-> << [id |-> 1, type |-> "PreCVM",
                   size |-> CyberShakeTaskTypes["PreCVM"].duration,
                   dependencies |-> <<>>] >>,
     task_id |-> 2, ids |-> <<1>>, task_dependencies |-> <<>>,
     gencvm_task_id |-> 0, site_sgt_task_ids |-> <<>>]

\* GenCVM of a site: depends on PreCVM
CyberShakeGenCVM(st) ==
    [AppendTasks(st, "GenCVM", CyberShakeTaskTypes["GenCVM"].duration, << <<1>> >>)
        EXCEPT !.task_dependencies = Append(@, <<1, st.task_id>>),
               !.gencvm_task_id = st.task_id]

\* "for sgt_id in range(num_sgt_variations)": each depends on the GenCVM
CyberShakeGenSGT(st, v) ==
    [AppendTasks(st, "GenSGT", CyberShakeTaskTypes["GenSGT"].duration,
                 [k \in 1 .. v |-> <<st.gencvm_task_id>>])
        EXCEPT !.task_dependencies =
                   @ \o [k \in 1 .. v |-> <<st.gencvm_task_id, st.task_id + k - 1>>],
               !.site_sgt_task_ids = [k \in 1 .. v |-> st.task_id + k - 1]]

\* CyberShakePSA where a PSA depends on the first GenSGT of the site alone
CyberShakePSAFirstSgt(st, p) ==
    [AppendTasks(st, "PSA", CyberShakeTaskTypes["PSA"].duration,
                 [k \in 1 .. p |-> <<st.site_sgt_task_ids[1]>>])
        EXCEPT !.task_dependencies =
                   @ \o [k \in 1 .. p |-> <<st.site_sgt_task_ids[1], st.task_id + k - 1>>]]

\* "for psa_id in range(num_psa_filter)": each depends on every GenSGT
CyberShakePSA(st, p) ==
    [AppendTasks(st, "PSA", CyberShakeTaskTypes["PSA"].duration,
                 [k \in 1 .. p |-> st.site_sgt_task_ids])
        EXCEPT !.task_dependencies =
                   @ \o Flatten([k \in 1 .. p |->
                            [d \in 1 .. Len(st.site_sgt_task_ids) |->
                                <<st.site_sgt_task_ids[d], st.task_id + k - 1>>]])]

\* ZipPSA of a site: depends on every PSA, whose ids are in st.ids
CyberShakeZipPSA(st) ==
    [AppendTasks(st, "ZipPSA", CyberShakeTaskTypes["ZipPSA"].duration, <<st.ids>>)
        EXCEPT !.task_dependencies =
                   @ \o [k \in 1 .. Len(st.ids) |-> <<st.ids[k], st.task_id>>]]

\* CyberShakeSite that never creates the site's ZipPSA
CyberShakeSiteWithoutZip(st, v, p) ==
    CyberShakePSA(CyberShakeGenSGT(CyberShakeGenCVM(st), v), p)

\* body of "for site_id in range(num_sites)"
CyberShakeSite(st, v, p) ==
    CyberShakeZipPSA(CyberShakePSA(CyberShakeGenSGT(CyberShakeGenCVM(st), v), p))

RECURSIVE CyberShakeSites(_, _, _, _)
CyberShakeSites(n, st, v, p) ==
    IF n <= 0 \/ st.task_id < 1 THEN st
    ELSE CyberShakeSites(n - 1, CyberShakeSite(st, v, p), v, p)

\* [task id for task in all_tasks if its type is "ZipPSA"]
ZipPsaTaskIds(ts) ==
    [k \in 1 .. Len(SelectSeq(ts, LAMBDA t : t.type = "ZipPSA")) |->
        SelectSeq(ts, LAMBDA t : t.type = "ZipPSA")[k].id]

\* PostProcess, after the site loop: depends on every ZipPSA
CyberShakePostProcess(st, zippsa_task_ids) ==
    [AppendTasks(st, "PostProcess", CyberShakeTaskTypes["PostProcess"].duration,
                 <<zippsa_task_ids>>)
        EXCEPT !.task_dependencies =
                   @ \o [k \in 1 .. Len(zippsa_task_ids) |->
                            <<zippsa_task_ids[k], st.task_id>>]]

CyberShakeFinal(st) == CyberShakePostProcess(st, ZipPsaTaskIds(st.tasks))

\* task.csv (f"t{task_id} {duration}") and dag.csv of the finished lists w
CyberShakeWrite(jobs, vm, w) ==
    Workflow("create_cybershake_workflow", jobs, vm, w.tasks, w.task_dependencies,
             [k \in 1 .. Len(w.tasks) |->
                 <<TaskName(w.tasks[k].id), IntStr(w.tasks[k].size)>>],
             DagLines(w.task_dependencies))

\* CyberShakeJobs that leaves out the ZipPSA of every site
CyberShakeJobsWithoutZip(num_sites, num_sgt_variations, num_psa_filter) ==
    1 + num_sites * (1 + num_sgt_variations + num_psa_filter) + 1

CyberShakeJobs(num_sites, num_sgt_variations, num_psa_filter) ==
    1 + num_sites * (1 + num_sgt_variations + num_psa_filter) + num_sites + 1

create_cybershake_workflow(num_sites, num_sgt_variations, num_psa_filter, r0) ==
    CyberShakeWrite(
        CyberShakeJobs(num_sites, num_sgt_variations, num_psa_filter),
        cybershake_create_vm_preferences_file(
            CyberShakeJobs(num_sites, num_sgt_variations, num_psa_filter), r0),
        CyberShakeFinal(CyberShakeSites(num_sites, CyberShakeInit,
                                        num_sgt_variations, num_psa_filter)))

----------------------------------------------------------------------------
(* creareLIGO.py: create_vm_preferences_file and create_ligo_workflow *)

ligo_create_vm_preferences_file(jobs, r0) ==
    VmFiles("ligo",
            ExpandInstances(LigoVmConfigs,
                [k \in 1 .. Len(LigoVmConfigs) |-> LigoVmConfigs[k].count], 1),
            r0)

\* len(range(0, n, 4)) and math.ceil(n / 4)
CeilDiv4(n) == IF n <= 0 THEN 0 ELSE (n + 3) \div 4

\* InjectionJobs with the quotient rounded up
InjectionJobsCeil(num_segments) == Max(1, (num_segments + 9) \div 10)

\* injection_jobs = max(1, num_segments // 10)
InjectionJobs(num_segments) == Max(1, num_segments \div 10)

\* st is [tasks, task_id, ids, datafind_tasks, templatebank_id,
\*        inspiral_tasks, trigbank_id]
LigoInit ==
    [tasks |-> <<>>, task_id |-> 1, ids |-> <<>>, datafind_tasks |-> <<>>,
     templatebank_id |-> 0, inspiral_tasks |-> <<>>, trigbank_id |-> 0]

LigoSize(type) == LigoTaskTypes[type].size

\* 1. one DataFind per segment
LigoDataFind(st, num_segments) ==
    [AppendTasks(st, "DataFind", LigoSize("DataFind"),
                 [seg \in 1 .. num_segments |-> <<>>])
        EXCEPT !.datafind_tasks = [seg \in 1 .. num_segments |-> st.task_id + seg - 1]]

\* 2. the TemplateBank
LigoTemplateBank(st) ==
    [AppendTasks(st, "TemplateBank", LigoSize("TemplateBank"), << <<>> >>)
        EXCEPT !.templatebank_id = st.task_id]

\* 3. per segment, one Inspiral per template, on its DataFind and the bank
LigoInspiral(st, num_segments, inspiral_templates) ==
    [AppendTasks(st, "Inspiral", LigoSize("Inspiral"),
                 Flatten([seg \in 1 .. num_segments |->
                     [tpl \in 1 .. inspiral_templates |->
                         <<st.datafind_tasks[seg], st.templatebank_id>>]]))
        EXCEPT !.inspiral_tasks =
                   [seg \in 1 .. num_segments |->
                       [tpl \in 1 .. inspiral_templates |->
                           st.task_id + (seg - 1) * inspiral_templates + tpl - 1]]]

\* CoincidenceDependencies that leaves out the fourth segment of the group
CoincidenceDependenciesOfThree(g, num_segments, inspiral_tasks) ==
    Flatten([k \in 1 .. (Min(4 * (g - 1) + 3, num_segments) - 4 * (g - 1)) |->
                inspiral_tasks[4 * (g - 1) + k]])

\* dependencies of Coincidence group g (from 1): every Inspiral task of the
\* segments 4(g-1)+1 .. min(4(g-1)+4, num_segments)
CoincidenceDependencies(g, num_segments, inspiral_tasks) ==
    Flatten([k \in 1 .. (Min(4 * (g - 1) + 4, num_segments) - 4 * (g - 1)) |->
                inspiral_tasks[4 * (g - 1) + k]])

\* 4. one Coincidence per group of four segments
LigoCoincidence(st, num_segments) ==
    AppendTasks(st, "Coincidence", LigoSize("Coincidence"),
                [g \in 1 .. CeilDiv4(num_segments) |->
                    CoincidenceDependencies(g, num_segments, st.inspiral_tasks)])

\* 5. the TrigBank, on every Coincidence (their ids are in st.ids)
LigoTrigBank(st) ==
    [AppendTasks(st, "TrigBank", LigoSize("TrigBank"), <<st.ids>>)
        EXCEPT !.trigbank_id = st.task_id]

\* LigoInjection whose tasks wait for Thinca, the task created after them
LigoInjectionOnThinca(st, num_segments) ==
    AppendTasks(st, "Injection", LigoSize("Injection"),
                [inj \in 1 .. InjectionJobs(num_segments) |->
                    <<st.task_id + InjectionJobs(num_segments)>>])

\* 6. the Injection tasks, each on the TemplateBank
LigoInjection(st, num_segments) ==
    AppendTasks(st, "Injection", LigoSize("Injection"),
                [inj \in 1 .. InjectionJobs(num_segments) |-> <<st.templatebank_id>>])

\* LigoThinca that waits for the TrigBank alone
LigoThincaOnTrigBank(st) ==
    AppendTasks(st, "Thinca", LigoSize("Thinca"), << <<st.trigbank_id>> >>)

\* 7. Thinca, on the TrigBank and every Injection (their ids are in st.ids)
LigoThinca(st) ==
    AppendTasks(st, "Thinca", LigoSize("Thinca"), << <<st.trigbank_id>> \o st.ids >>)

\* 8. PostProcess, on Thinca
LigoPostProcess(st) ==
    AppendTasks(st, "PostProcess", LigoSize("PostProcess"), << <<st.ids[1]>> >>)

\* the task list of create_ligo_workflow
LigoTasks(num_segments, inspiral_templates) ==
    LigoPostProcess(LigoThinca(LigoInjection(LigoTrigBank(LigoCoincidence(
        LigoInspiral(LigoTemplateBank(LigoDataFind(LigoInit, num_segments)),
                     num_segments, inspiral_templates),
        num_segments)), num_segments))).tasks

LigoJobs(num_segments, inspiral_templates) ==
    num_segments + 1 + num_segments * inspiral_templates
      + CeilDiv4(num_segments) + 1 + InjectionJobs(num_segments) + 1 + 1

\* task.csv (f"t{id} {size}") and dag.csv, each under a comment line
LigoWrite(jobs, vm, ts) ==
    Workflow("create_ligo_workflow", jobs, vm, ts, DependencyEdges(ts),
             <<Comment("Task list for LIGO workflow (format: t{ID} size)")>> \o
             [k \in 1 .. Len(ts) |-> <<TaskName(ts[k].id), FloatRepr(ts[k].size)>>],
             <<Comment("DAG dependencies for LIGO workflow (format: t{from} t{to})")>>
             \o DagLines(DependencyEdges(ts)))

create_ligo_workflow(num_segments, inspiral_templates, r0) ==
    LigoWrite(LigoJobs(num_segments, inspiral_templates),
              ligo_create_vm_preferences_file(
                  LigoJobs(num_segments, inspiral_templates), r0),
              LigoTasks(num_segments, inspiral_templates))

----------------------------------------------------------------------------
(* creareEpigenomics.py: create_vm_preferences_file and                    *)
(* create_epigenomics_workflow                                             *)

epigenomics_create_vm_preferences_file(jobs, r0) ==
    VmFiles("epigenomics",
            ExpandInstances(EpigenomicsVmConfigs,
                [k \in 1 .. Len(EpigenomicsVmConfigs) |->
                    EpigenomicsVmConfigs[k].count], 1),
            r0)

\* DifferentialJobs with a group for the sample an odd number leaves over
DifferentialJobsCeil(num_samples) == Max(1, (num_samples + 1) \div 2)

\* differential_jobs = max(1, num_samples // 2)
DifferentialJobs(num_samples) == Max(1, num_samples \div 2)

\* st is [tasks, task_id, ids, peakcalling_tasks, annotation_tasks,
\*        differential_tasks, visualization_tasks]; the lists of the stages
\* 1 to 5 are read only by the stage that follows, from st.ids
EpigenomicsInit ==
    [tasks |-> <<>>, task_id |-> 1, ids |-> <<>>, peakcalling_tasks |-> <<>>,
     annotation_tasks |-> <<>>, differential_tasks |-> <<>>,
     visualization_tasks |-> <<>>]

EpigenomicsSize(type) == EpigenomicsTaskTypes[type].size

\* 1. two FastQC per sample (R1, R2)
EpigenomicsFastQC(st, num_samples) ==
    AppendTasks(st, "FastQC", EpigenomicsSize("FastQC"),
                [k \in 1 .. 2 * num_samples |-> <<>>])

\* 2. Trimming of a sample, on its two FastQC
EpigenomicsTrimming(st, num_samples) ==
    AppendTasks(st, "Trimming", EpigenomicsSize("Trimming"),
                [s \in 1 .. num_samples |-> <<st.ids[2 * s - 1], st.ids[2 * s]>>])

\* 3-5. Alignment, Sorting, Deduplication: one per sample, on the sample's
\* task of the stage before
EpigenomicsPerSample(st, type, num_samples) ==
    AppendTasks(st, type, EpigenomicsSize(type),
                [s \in 1 .. num_samples |-> <<st.ids[s]>>])

\* 6. per sample, one PeakCalling per analysis type, on its Deduplication
EpigenomicsPeakCalling(st, num_samples, analysis_types) ==
    [AppendTasks(st, "PeakCalling", EpigenomicsSize("PeakCalling"),
                 Flatten([s \in 1 .. num_samples |->
                     [a \in 1 .. analysis_types |-> <<st.ids[s]>>]]))
        EXCEPT !.peakcalling_tasks =
                   [s \in 1 .. num_samples |->
                       [a \in 1 .. analysis_types |->
                           st.task_id + (s - 1) * analysis_types + a - 1]]]

\* 7. Annotation of a sample, on all its PeakCalling tasks
EpigenomicsAnnotation(st, num_samples) ==
    [AppendTasks(st, "Annotation", EpigenomicsSize("Annotation"),
                 [s \in 1 .. num_samples |-> st.peakcalling_tasks[s]])
        EXCEPT !.annotation_tasks = [s \in 1 .. num_samples |-> st.task_id + s - 1]]

\* DifferentialDependencies that always compares two samples: a group
\* left with one sample compares it with itself
DifferentialDependenciesPaired(diff, num_samples, annotation_tasks) ==
    LET start_sample == diff * 2
        other_sample == Min(start_sample + 1, num_samples - 1)
    IN <<annotation_tasks[start_sample + 1], annotation_tasks[other_sample + 1]>>

\* dependencies of DifferentialAnalysis group diff (groups and samples are
\* numbered from 0, as in the source):
\*   [annotation_tasks[s] for s in range(start_sample, end_sample)
\*                         if s < len(annotation_tasks)]
DifferentialDependencies(diff, num_samples, annotation_tasks) ==
    LET start_sample == diff * 2
        end_sample == Min(start_sample + 2, num_samples)
        compare_samples == [k \in 1 .. Max(0, end_sample - start_sample) |->
                                start_sample + k - 1]
        kept == SelectSeq(compare_samples, LAMBDA s : s < Len(annotation_tasks))
    IN [k \in 1 .. Len(kept) |-> annotation_tasks[kept[k] + 1]]

\* 8. the DifferentialAnalysis tasks
EpigenomicsDifferential(st, num_samples) ==
    [AppendTasks(st, "DifferentialAnalysis", EpigenomicsSize("DifferentialAnalysis"),
                 [d \in 1 .. DifferentialJobs(num_samples) |->
                     DifferentialDependencies(d - 1, num_samples, st.annotation_tasks)])
        EXCEPT !.differential_tasks =
                   [d \in 1 .. DifferentialJobs(num_samples) |-> st.task_id + d - 1]]

\* 9a. one Visualization per sample, on its Annotation
EpigenomicsVisualizationSample(st, num_samples) ==
    [AppendTasks(st, "Visualization", EpigenomicsSize("Visualization"),
                 [s \in 1 .. num_samples |-> <<st.annotation_tasks[s]>>])
        EXCEPT !.visualization_tasks = [s \in 1 .. num_samples |-> st.task_id + s - 1]]

\* 9b. one Visualization per DifferentialAnalysis
EpigenomicsVisualizationDifferential(st) ==
    [AppendTasks(st, "Visualization", EpigenomicsSize("Visualization"),
                 [d \in 1 .. Len(st.differential_tasks) |-> <<st.differential_tasks[d]>>])
        EXCEPT !.visualization_tasks =
                   @ \o [d \in 1 .. Len(st.differential_tasks) |-> st.task_id + d - 1]]

\* 10. the FinalReport, on every DifferentialAnalysis and Visualization
EpigenomicsFinalReport(st) ==
    AppendTasks(st, "FinalReport", EpigenomicsSize("FinalReport"),
                << st.differential_tasks \o st.visualization_tasks >>)

\* the task list of create_epigenomics_workflow
EpigenomicsTasks(num_samples, analysis_types) ==
    EpigenomicsFinalReport(EpigenomicsVisualizationDifferential(
      EpigenomicsVisualizationSample(EpigenomicsDifferential(EpigenomicsAnnotation(
        EpigenomicsPeakCalling(
          EpigenomicsPerSample(EpigenomicsPerSample(EpigenomicsPerSample(
            EpigenomicsTrimming(EpigenomicsFastQC(EpigenomicsInit, num_samples),
                                num_samples),
            "Alignment", num_samples), "Sorting", num_samples),
            "Deduplication", num_samples),
          num_samples, analysis_types),
        num_samples), num_samples), num_samples))).tasks

EpigenomicsJobs(num_samples, analysis_types) ==
    num_samples * 2 + num_samples + num_samples + num_samples
      + num_samples + num_samples * analysis_types + num_samples
      + DifferentialJobs(num_samples)
      + (num_samples + DifferentialJobs(num_samples)) + 1

\* task.csv (f"t{id} {size}") and dag.csv, each under a comment line
EpigenomicsWrite(jobs, vm, ts) ==
    Workflow("create_epigenomics_workflow", jobs, vm, ts, DependencyEdges(ts),
             <<Comment("Task list for Epigenomics workflow (format: t{ID} size)")>> \o
             [k \in 1 .. Len(ts) |-> <<TaskName(ts[k].id), FloatRepr(ts[k].size)>>],
             <<Comment("DAG dependencies for Epigenomics workflow (format: t{from} t{to})")>>
             \o DagLines(DependencyEdges(ts)))

create_epigenomics_workflow(num_samples, analysis_types, r0) ==
    EpigenomicsWrite(EpigenomicsJobs(num_samples, analysis_types),
                     epigenomics_create_vm_preferences_file(
                         EpigenomicsJobs(num_samples, analysis_types), r0),
                     EpigenomicsTasks(num_samples, analysis_types))

----------------------------------------------------------------------------
(* creareMontage.py: the CCR variant                                       *)

ScaleParams ==
    [small  |-> [num_images |-> 25,  size_min |-> Fixed(500), size_max |-> Fixed(600)],
     medium |-> [num_images |-> 50,  size_min |-> Fixed(550), size_max |-> Fixed(650)],
     large  |-> [num_images |-> 100, size_min |-> Fixed(600), size_max |-> Fixed(700)]]

\* one processing capacity draw per VM, in id order
create_vm_configurations_ccr(num_vms, r0) ==
    [vm_configs |-> [vm_id \in 1 .. num_vms |->
                        [vm_id |-> vm_id,
                         processing_capacity |->
                             Uniform(Fixed(10), Fixed(20), RandomAt(r0, vm_id))]],
     rng |-> RandomAt(r0, Max(0, num_vms))]

\* st is [tasks, task_id, ids, rng, task_dependencies, mbackground_tasks,
\*        lo, hi]; lo and hi are size_min and size_max of the scale
MontageCcrInit(params, r0) ==
    [tasks |-> <<>>, task_id |-> 1, ids |-> <<>>, rng |-> r0,
     task_dependencies |-> <<>>, mbackground_tasks |-> <<>>,
     lo |-> params.size_min, hi |-> params.size_max]

\* one task of the CCR variant: its size is the next draw
CcrTask(st, type, deps) ==
    [AppendTasks(st, type, Uniform(st.lo, st.hi, RandomNext(st.rng)), <<deps>>)
        EXCEPT !.rng = RandomNext(st.rng)]

\* a task that depends on the task created just before it, and their edge
MontageCcrStep(st, type) ==
    [CcrTask(st, type, <<st.ids[1]>>)
        EXCEPT !.task_dependencies = Append(@, <<st.ids[1], st.task_id>>)]

MontageCcrBackground(st) ==
    [MontageCcrStep(st, "mBackground")
        EXCEPT !.mbackground_tasks = Append(@, st.task_id)]

\* body of "for img_id in range(num_images)" of create_montage_workflow_ccr
MontageCcrImage(st) ==
    MontageCcrBackground(
        MontageCcrStep(MontageCcrStep(MontageCcrStep(CcrTask(st, "mProject", <<>>),
                                      "mDiffFit"), "mConcatFit"), "mBgModel"))

RECURSIVE MontageCcrImages(_, _)
MontageCcrImages(n, st) ==
    IF n <= 0 \/ st.task_id < 1 THEN st
    ELSE MontageCcrImages(n - 1, MontageCcrImage(st))

MontageCcrAdd(st) ==
    [CcrTask(st, "mAdd", st.mbackground_tasks)
        EXCEPT !.task_dependencies =
                   @ \o [k \in 1 .. Len(st.mbackground_tasks) |->
                            <<st.mbackground_tasks[k], st.task_id>>]]

\* the four files of create_csv_files_ccr; ccr_value is only printed
create_csv_files_ccr(all_tasks, task_dependencies, vm_configs, ccr_value, r0) ==
    [files |-> [f \in FileNames |->
         CASE f = "task.csv" ->
                 [k \in 1 .. Len(all_tasks) |->
                     <<TaskName(all_tasks[k].id), FormatFloat(all_tasks[k].size, 1)>>]
           [] f = "dag.csv" -> DagLines(task_dependencies)
           [] f = "vm.csv" -> VmCsv("ccr", vm_configs, r0)
           [] f = "processing_capacity.csv" ->
                 [k \in 1 .. Len(vm_configs) |->
                     <<VmName(vm_configs[k].vm_id),
                       FormatFloat(vm_configs[k].processing_capacity, 1)>>]],
     rng |-> RandomAt(r0, Len(vm_configs) * (Len(vm_configs) - 1))]

\* the lists of the CCR variant and the files written for them, from the
\* VM draw vm and the finished task lists w
MontageCcrWrite(jobs, vm, w, ccr_value) ==
    [builder |-> "create_montage_workflow_ccr",
     total_jobs |-> jobs,
     vm_instances |-> vm.vm_configs,
     tasks |-> w.tasks,
     edges |-> w.task_dependencies,
     files |-> create_csv_files_ccr(w.tasks, w.task_dependencies, vm.vm_configs,
                                    ccr_value, w.rng).files,
     rng |-> create_csv_files_ccr(w.tasks, w.task_dependencies, vm.vm_configs,
                                  ccr_value, w.rng).rng]

MontageCcrBuild(params, vm, ccr_value) ==
    MontageCcrWrite(params.num_images * 5 + 1 + 1, vm,
        MontageCcrStep(
            MontageCcrAdd(MontageCcrImages(params.num_images,
                                           MontageCcrInit(params, vm.rng))),
            "mJPEG"),
        ccr_value)

\* create_montage_workflow_ccr whose generator has made ccr_value \div 100
\* draws more before the first capacity is drawn
MontageCcrAfterCcrDraws(scale, num_vms, ccr_value, r0) ==
    MontageCcrBuild(ScaleParams[scale],
                    create_vm_configurations_ccr(num_vms,
                        RandomAt(r0, ccr_value \div 100)),
                    ccr_value)

create_montage_workflow_ccr(scale, num_vms, ccr_value, r0) ==
    MontageCcrBuild(ScaleParams[scale], create_vm_configurations_ccr(num_vms, r0),
                    ccr_value)

----------------------------------------------------------------------------
(* single_dag_ccr_analysis.py: modify_vm_count_to_5 *)

ModifiedVmCsv ==
    << <<Hash>> \o [k \in 1 .. 5 |-> VmName(k)] >> \o
    [i \in 1 .. 5 |->
        <<VmName(i)>> \o
        [j \in 1 .. 5 |-> IF i = j THEN FormatFloat(Fixed(0), 1)
                                   ELSE FormatFloat(Fixed(25), 1)]]

ModifiedCapacityCsv ==
    [i \in 1 .. 5 |-> <<VmName(i), FormatFloat(Fixed(15), 1)>>]


----------------------------------------------------------------------------
(* simple_dag_check.py: load_dag_from_files and is_dag_valid.              *)
(* A dict is written as a function on its keys; tasks, whose key order     *)
(* is_dag_valid reads, is the sequence of its <<key, value>> items in      *)
(* insertion order.  A key is the token read from the file ("t7").         *)

\* float(text) of a number printed with at most three decimals
ParseFloat(tok) ==
    tok.num * (CASE tok.dec = 0 -> 1000 [] tok.dec = 1 -> 100
                 [] tok.dec = 2 -> 10 [] tok.dec = 3 -> 1)

\* IsDataLine without the test for '#'
IsDataLineAny(line) == line # <<>>

\* "line = line.strip(); if line and not line.startswith('#')"
IsDataLine(line) == line # <<>> /\ line[1].pfx # "#"

DataLines(csv) == SelectSeq(csv, IsDataLine)

\* "tasks[task_id] = size" for every data line: a key keeps the place of its
\* first line and the value of its last
LoadTasks(task_csv) ==
    LET lines == DataLines(task_csv)
        first == SelectSeq([i \in 1 .. Len(lines) |-> i],
                           LAMBDA i : \A j \in 1 .. (i - 1) : lines[j][1] # lines[i][1])
        Last(key) == CHOOSE i \in 1 .. Len(lines) :
                         /\ lines[i][1] = key
                         /\ \A j \in (i + 1) .. Len(lines) : lines[j][1] # key
    IN [k \in 1 .. Len(first) |->
           <<lines[first[k]][1], ParseFloat(lines[Last(lines[first[k]][1])][2])>>]

\* "edges.append((from_task, to_task))" for every data line
LinesToEdges(lines) == [k \in 1 .. Len(lines) |-> <<lines[k][1], lines[k][2]>>]

LoadEdges(dag_csv) == LinesToEdges(DataLines(dag_csv))

\* "adj_list[from_task].append(to_task)"
AdjList(es) ==
    [from_task \in {es[k][1] : k \in DOMAIN es} |->
        LET out == SelectSeq(es, LAMBDA e : e[1] = from_task)
        IN [k \in 1 .. Len(out) |-> out[k][2]]]

\* "in_degree[to_task] += 1; if from_task not in in_degree: ... = 0"
InDegree(es) ==
    [task \in {es[k][1] : k \in DOMAIN es} \cup {es[k][2] : k \in DOMAIN es} |->
        Cardinality({k \in DOMAIN es : es[k][2] = task})]

\* the dicts built from the loaded edge list es
DagOfEdges(task_items, es) ==
    [tasks |-> task_items, edges |-> es,
     adj_list |-> AdjList(es), in_degree |-> InDegree(es)]

load_dag_from_files(task_csv, dag_csv) ==
    DagOfEdges(LoadTasks(task_csv), LoadEdges(dag_csv))

\* adj_list[current] of a defaultdict(list)
Neighbors(adj_list, current) ==
    IF current \in DOMAIN adj_list THEN adj_list[current] ELSE <<>>

\* "for neighbor in adj_list[current]: temp_in_degree[neighbor] -= 1;
\*  if temp_in_degree[neighbor] == 0: queue.append(neighbor)"
\* k is [queue, temp_in_degree, processed]
RECURSIVE RemoveOutgoing(_, _)
RemoveOutgoing(neighbors, k) ==
    IF neighbors = <<>> \/ k.processed < 0 THEN k
    ELSE RemoveOutgoing(Tail(neighbors),
            [k EXCEPT
                !.temp_in_degree[Head(neighbors)] = @ - 1,
                !.queue = IF k.temp_in_degree[Head(neighbors)] - 1 = 0
                          THEN Append(@, Head(neighbors)) ELSE @])

\* one turn of "while queue: current = queue.popleft(); processed += 1; ..."
\* (with an empty queue the loop is over and nothing changes)
KahnStep(adj_list, k) ==
    IF k.queue = <<>> THEN k
    ELSE RemoveOutgoing(Neighbors(adj_list, Head(k.queue)),
                        [k EXCEPT !.queue = Tail(@), !.processed = @ + 1])

\* eight turns of the loop
KahnSteps(adj_list, k) ==
    KahnStep(adj_list, KahnStep(adj_list, KahnStep(adj_list, KahnStep(adj_list,
    KahnStep(adj_list, KahnStep(adj_list, KahnStep(adj_list, KahnStep(adj_list,
        k))))))))

\* the while loop, taken eight turns at a time; the value is processed
RECURSIVE KahnLoop(_, _)
KahnLoop(adj_list, k) ==
    IF k.queue = <<>> THEN k.processed
    ELSE KahnLoop(adj_list, KahnSteps(adj_list, k))

\* temp_in_degree.get(task, 0)
InDegreeGet(in_degree, task) ==
    IF task \in DOMAIN in_degree THEN in_degree[task] ELSE 0

\* Roots stopping at the first task found without a predecessor
RootsFirstOnly(task_items, in_degree) ==
    LET zero == SelectSeq(task_items, LAMBDA t : InDegreeGet(in_degree, t[1]) = 0)
    IN [i \in 1 .. Min(1, Len(zero)) |-> zero[i][1]]

\* [task for task in tasks.keys() if temp_in_degree.get(task, 0) == 0]
Roots(task_items, in_degree) ==
    LET zero == SelectSeq(task_items, LAMBDA t : InDegreeGet(in_degree, t[1]) = 0)
    IN [i \in 1 .. Len(zero) |-> zero[i][1]]

is_dag_valid(task_items, adj_list, in_degree) ==
    KahnLoop(adj_list,
             [queue |-> Roots(task_items, in_degree),
              temp_in_degree |-> in_degree,
              processed |-> 0])
        = Len(task_items)

\* [task for task in tasks.keys() if len(adj_list[task]) == 0]
Leaves(task_items, adj_list) ==
    LET none == SelectSeq(task_items, LAMBDA t : Neighbors(adj_list, t[1]) = <<>>)
    IN [i \in 1 .. Len(none) |-> none[i][1]]

\* DepthsPut keeping the depth a task was first met with
DepthsPutFirst(depths, task, depth) ==
    [t \in DOMAIN depths \cup {task} |->
        IF t \in DOMAIN depths THEN depths[t] ELSE depth]

\* "if task in depths: depths[task] = max(depths[task], depth)
\*  else: depths[task] = depth"
DepthsPut(depths, task, depth) ==
    [t \in DOMAIN depths \cup {task} |->
        IF t # task THEN depths[t]
        ELSE IF task \in DOMAIN depths THEN Max(depths[task], depth) ELSE depth]

\* "for neighbor in adj_list[task]: queue.append((neighbor, n))"
Enqueue(queue, neighbors, n) ==
    queue \o [k \in 1 .. Len(neighbors) |-> <<neighbors[k], n>>]

\* one turn of the depth loop "while queue: task, depth = queue.popleft(); ..."
\* d is [queue, depths, max_depth]
DepthStep(adj_list, d) ==
    IF d.queue = <<>> THEN d
    ELSE [queue |-> Enqueue(Tail(d.queue), Neighbors(adj_list, Head(d.queue)[1]),
                            Head(d.queue)[2] + 1),
          depths |-> DepthsPut(d.depths, Head(d.queue)[1], Head(d.queue)[2]),
          max_depth |-> Max(d.max_depth, Head(d.queue)[2])]

\* eight turns of the depth loop
DepthSteps(adj_list, d) ==
    DepthStep(adj_list, DepthStep(adj_list, DepthStep(adj_list, DepthStep(adj_list,
    DepthStep(adj_list, DepthStep(adj_list, DepthStep(adj_list, DepthStep(adj_list,
        d))))))))

\* the depth loop.  Nothing marks a task as seen, so the loop follows every
\* path out of the roots; a path of nodes edges goes around a cycle, and then
\* the queue never empties: the loop does not end (ends is FALSE).
RECURSIVE DepthLoop(_, _, _)
DepthLoop(adj_list, nodes, d) ==
    IF d.queue = <<>> THEN [depths |-> d.depths, max_depth |-> d.max_depth, ends |-> TRUE]
    ELSE IF d.max_depth >= nodes
         THEN [depths |-> d.depths, max_depth |-> d.max_depth, ends |-> FALSE]
    ELSE DepthLoop(adj_list, nodes, DepthSteps(adj_list, d))

\* "max_depth = 0; if roots: depths = {}; queue = deque([(root, 0) ...])"
DepthBfs(task_items, adj_list, in_degree, roots) ==
    DepthLoop(adj_list,
              Cardinality({task_items[k][1] : k \in DOMAIN task_items}
                              \cup DOMAIN in_degree),
              [queue |-> [k \in 1 .. Len(roots) |-> <<roots[k], 0>>],
               depths |-> [t \in {} |-> 0],
               max_depth |-> 0])

\* one turn of "while queue: task, path_len = queue.popleft(); if task in
\* visited: continue; visited.add(task); ..."; c is [queue, visited, max_path]
CriticalStep(adj_list, leaves, c) ==
    IF c.queue = <<>> THEN c
    ELSE IF Head(c.queue)[1] \in c.visited THEN [c EXCEPT !.queue = Tail(@)]
    ELSE [queue |-> Enqueue(Tail(c.queue),
                            SelectSeq(Neighbors(adj_list, Head(c.queue)[1]),
                                      LAMBDA n : n \notin c.visited
                                                 /\ n # Head(c.queue)[1]),
                            Head(c.queue)[2] + 1),
          visited |-> c.visited \cup {Head(c.queue)[1]},
          max_path |-> IF Head(c.queue)[1] \in leaves
                       THEN Max(c.max_path, Head(c.queue)[2]) ELSE c.max_path]

\* eight turns of that loop
CriticalSteps(adj_list, leaves, c) ==
    CriticalStep(adj_list, leaves, CriticalStep(adj_list, leaves,
    CriticalStep(adj_list, leaves, CriticalStep(adj_list, leaves,
    CriticalStep(adj_list, leaves, CriticalStep(adj_list, leaves,
    CriticalStep(adj_list, leaves, CriticalStep(adj_list, leaves, c))))))))

\* the loop from one root; the value is max_path
RECURSIVE CriticalLoop(_, _, _)
CriticalLoop(adj_list, leaves, c) ==
    IF c.queue = <<>> \/ c.max_path < 0 THEN c.max_path
    ELSE CriticalLoop(adj_list, leaves, CriticalSteps(adj_list, leaves, c))

\* "for root in roots: visited = set(); queue = deque([(root, 1)]); ..."
RECURSIVE CriticalRoots(_, _, _, _)
CriticalRoots(adj_list, leaves, roots, max_path) ==
    IF roots = <<>> \/ max_path < 0 THEN max_path
    ELSE CriticalRoots(adj_list, leaves, Tail(roots),
            CriticalLoop(adj_list, leaves,
                [queue |-> <<<<Head(roots), 1>>>>, visited |-> {},
                 max_path |-> max_path]))

\* "critical_path_length = 0; if roots and leaves: ..."
CriticalPathLength(adj_list, roots, leaves) ==
    IF roots # <<>> /\ leaves # <<>>
    THEN CriticalRoots(adj_list, {leaves[k] : k \in DOMAIN leaves}, roots, 0)
    ELSE 0

\* analysis holds no result: simple_dag_check has not looked at the files
NoAnalysis ==
    [state |-> "none", num_tasks |-> -1, num_dependencies |-> -1,
     is_dag |-> FALSE, num_roots |-> -1, num_leaves |-> -1, max_depth |-> -1,
     roots |-> <<>>, leaves |-> <<>>, critical_path_length |-> -1,
     depths |-> [t \in {} |-> 0]]

\* the process is inside a loop that does not end
Hung == [NoAnalysis EXCEPT !.state = "hung"]

\* the analysis dict, with the loop's depths next to it
AnalysisDict(dag, roots, leaves, bfs) ==
    IF ~bfs.ends THEN Hung
    ELSE [state |-> "done",
          num_tasks |-> Len(dag.tasks),
          num_dependencies |-> Len(dag.edges),
          is_dag |-> is_dag_valid(dag.tasks, dag.adj_list, dag.in_degree),
          num_roots |-> Len(roots),
          num_leaves |-> Len(leaves),
          max_depth |-> bfs.max_depth,
          roots |-> roots,
          leaves |-> leaves,
          critical_path_length |-> CriticalPathLength(dag.adj_list, roots, leaves),
          depths |-> bfs.depths]

\* the roots and leaves found, and what the loops make of them
AnalysisOf(dag, roots, leaves) ==
    AnalysisDict(dag, roots, leaves,
                 DepthBfs(dag.tasks, dag.adj_list, dag.in_degree, roots))

\* analyze_dag_structure(tasks, edges, adj_list, in_degree)
DagAnalysis(dag) ==
    AnalysisOf(dag, Roots(dag.tasks, dag.in_degree), Leaves(dag.tasks, dag.adj_list))

----------------------------------------------------------------------------
(* Command lines explored.  Every size parameter takes the values of its   *)
(* accepted range up to the bound, and values on both sides outside it.    *)

\* --degrees 0.05, 0.5 (the default) and 10.5
MontageArgs ==
    [has_images : {TRUE}, images : {-1, 0} \cup (1 .. MaxImages) \cup {201},
     degrees : {50, 500, 10500}, scale : {"medium"}, num_vms : {10}]
    \cup
    [has_images : {FALSE}, images : {0}, degrees : {500},
     scale : {"small", "medium"}, num_vms : {5, 10}]

CyberShakeArgs ==
    [sites : {0} \cup (1 .. MaxSites) \cup {101},
     sgt_variations : {0} \cup (1 .. MaxSgt) \cup {11},
     psa_filters : {0} \cup (1 .. MaxPsa) \cup {11}]

LigoArgs ==
    [segments : {0} \cup (1 .. MaxSegments) \cup {11, 20, 1001},
     templates : {0} \cup (1 .. MaxTemplates) \cup {51}]

EpigenomicsArgs ==
    [samples : {0} \cup (1 .. MaxSamples) \cup {101},
     chromosomes : {0, 22, 25},
     analyses : {0} \cup (1 .. MaxAnalyses) \cup {6}]

NoArgs == [none |-> TRUE]

\* analyze_ccr_impact has not been entered ("none"); else it is in its loop
\* before iteration i ("loop"), past it ("done"), or an exception ended it
\* ("raised").  valid is len(results["ccr_values"]); entry, ccr, rng0 and
\* outcome are the directory at entry and the CCR value, the generator state
\* at the start and the end in run_algorithm_and_get_results of the
\* iteration before.
NoImpact ==
    [pc |-> "none", i |-> 0, valid |-> 0, entry |-> "none", ccr |-> 0,
     rng0 |-> 0, outcome |-> "none"]

----------------------------------------------------------------------------
(* The scripts *)

\* what a run leaves behind when main() exits before calling a builder
NoBuild(r0) ==
    [builder |-> "none", total_jobs |-> 0, vm_instances |-> <<>>,
     tasks |-> <<>>, edges |-> <<>>, files |-> [f \in {} |-> <<>>], rng |-> r0]

\* a script may be started while generation is going on; a second start
\* repeats the command line of the first
CanRun(p, a) ==
    /\ phase = "generate"
    /\ runs < MaxRuns
    /\ runs = 0 \/ (prog = p /\ args = a)

\* the process ran to its end: record what it did and what it left on disk
Finish(p, a, status, res) ==
    /\ prog' = p
    /\ args' = a
    /\ exit_status' = status
    /\ builder' = res.builder
    /\ tasks' = res.tasks
    /\ edges' = res.edges
    /\ total_jobs' = res.total_jobs
    /\ vm_instances' = res.vm_instances
    /\ files' = [f \in FileNames |->
                    IF f \in DOMAIN res.files THEN res.files[f] ELSE files[f]]
    /\ written' = DOMAIN res.files
    /\ prev' = [prog |-> prog, args |-> args, exit_status |-> exit_status,
                files |-> files]
    /\ runs' = runs + 1
    /\ rng' = res.rng
    /\ analysis' = NoAnalysis
    /\ UNCHANGED <<phase, cwd, impact, bandwidths>>

\* creareMontage.main without --analyze_ccr
MontageMain(a, seed) ==
    /\ CanRun("creareMontage.py", a)
    /\ IF a.has_images /\ a.images # 0
       THEN IF a.images < 1 \/ a.images > 200
            THEN Finish("creareMontage.py", a, 1, NoBuild(seed))
            ELSE IF a.degrees < 100 \/ a.degrees > 10000
            THEN Finish("creareMontage.py", a, 1, NoBuild(seed))
            ELSE Finish("creareMontage.py", a, 0,
                        create_montage_workflow(a.images, seed))
       ELSE Finish("creareMontage.py", a, 0,
                   create_montage_workflow_ccr(a.scale, a.num_vms, Fixed(1), seed))

\* creareDAG.main
CyberShakeMain(a, seed) ==
    /\ CanRun("creareDAG.py", a)
    /\ IF a.sites < 1 \/ a.sites > 100
       THEN Finish("creareDAG.py", a, 1, NoBuild(seed))
       ELSE IF a.sgt_variations < 1 \/ a.sgt_variations > 10
       THEN Finish("creareDAG.py", a, 1, NoBuild(seed))
       ELSE IF a.psa_filters < 1 \/ a.psa_filters > 10
       THEN Finish("creareDAG.py", a, 1, NoBuild(seed))
       ELSE Finish("creareDAG.py", a, 0,
                   create_cybershake_workflow(a.sites, a.sgt_variations,
                                              a.psa_filters, seed))

\* creareLIGO.main
LigoMain(a, seed) ==
    /\ CanRun("creareLIGO.py", a)
    /\ IF a.segments < 1 \/ a.segments > 1000
       THEN Finish("creareLIGO.py", a, 1, NoBuild(seed))
       ELSE IF a.templates < 1 \/ a.templates > 50
       THEN Finish("creareLIGO.py", a, 1, NoBuild(seed))
       ELSE Finish("creareLIGO.py", a, 0,
                   create_ligo_workflow(a.segments, a.templates, seed))

\* creareEpigenomics.main
EpigenomicsMain(a, seed) ==
    /\ CanRun("creareEpigenomics.py", a)
    /\ IF a.samples < 1 \/ a.samples > 100
       THEN Finish("creareEpigenomics.py", a, 1, NoBuild(seed))
       ELSE IF a.chromosomes < 1 \/ a.chromosomes > 24
       THEN Finish("creareEpigenomics.py", a, 1, NoBuild(seed))
       ELSE IF a.analyses < 1 \/ a.analyses > 5
       THEN Finish("creareEpigenomics.py", a, 1, NoBuild(seed))
       ELSE Finish("creareEpigenomics.py", a, 0,
                   create_epigenomics_workflow(a.samples, a.analyses, seed))

\* single_dag_ccr_analysis.modify_vm_count_to_5, called by its main once the
\* generator it started has succeeded
ModifyVmCountTo5 ==
    /\ phase = "generate"
    /\ runs >= 1
    /\ exit_status = 0
    /\ files' = [files EXCEPT !["vm.csv"] = ModifiedVmCsv,
                              !["processing_capacity.csv"] = ModifiedCapacityCsv]
    /\ written' = {"vm.csv", "processing_capacity.csv"}
    /\ phase' = "analysis"
    /\ UNCHANGED <<rng, prog, args, exit_status, builder, tasks, edges,
                   total_jobs, vm_instances, prev, runs, analysis,
                   cwd, impact, bandwidths>>

\* simple_dag_check: load_dag_from_files and is_dag_valid on the data
\* directory, once the generator has left task.csv and dag.csv there
SimpleDagCheck ==
    /\ analysis = NoAnalysis
    /\ files["task.csv"] # NoFile
    /\ files["dag.csv"] # NoFile
    /\ analysis' = DagAnalysis(load_dag_from_files(files["task.csv"],
                                                   files["dag.csv"]))
    /\ UNCHANGED <<rng, prog, args, exit_status, builder, tasks, edges,
                   total_jobs, vm_instances, files, written, prev, runs, phase,
                   cwd, impact, bandwidths>>

Init ==
    /\ rng = 0
    /\ prog = "none"
    /\ args = NoArgs
    /\ exit_status = -1
    /\ builder = "none"
    /\ tasks = <<>>
    /\ edges = <<>>
    /\ total_jobs = 0
    /\ vm_instances = <<>>
    /\ files = [f \in FileNames |-> NoFile]
    /\ written = {}
    /\ prev = [prog |-> "none", args |-> NoArgs, exit_status |-> -1,
               files |-> [f \in FileNames |-> NoFile]]
    /\ runs = 0
    /\ phase = "generate"
    /\ analysis = NoAnalysis
    /\ cwd = "generators"
    /\ impact = NoImpact
    /\ bandwidths = <<>>

Next ==
    \/ \E a \in MontageArgs, seed \in Seeds : MontageMain(a, seed)
    \/ \E a \in CyberShakeArgs, seed \in Seeds : CyberShakeMain(a, seed)
    \/ \E a \in LigoArgs, seed \in Seeds : LigoMain(a, seed)
    \/ \E a \in EpigenomicsArgs, seed \in Seeds : EpigenomicsMain(a, seed)
    \/ ModifyVmCountTo5
    \/ SimpleDagCheck

Spec == Init /\ [][Next]_vars

----------------------------------------------------------------------------
(* simple_dag_check on files it did not see being written.  The data       *)
(* directory holds a task.csv with the tasks t1 .. tn and a dag.csv whose  *)
(* lines name any ids of t1 .. t(MaxCheckTasks + 1), so that an edge may   *)
(* repeat, join a task to itself, or name an id that is no task.  The      *)
(* lines of dag.csv are taken in non-decreasing order of (from, to): the   *)
(* dicts load_dag_from_files builds depend on the order of the lines only  *)
(* through the order of each adjacency list.                               *)

\* (from, to) pairs in non-decreasing order, at most MaxCheckEdges of them
CheckEdgeLists ==
    {es \in UNION {[1 .. m -> (1 .. (MaxCheckTasks + 1))
                                 \X (1 .. (MaxCheckTasks + 1))]
                   : m \in 0 .. MaxCheckEdges} :
        \A k \in 1 .. (Len(es) - 1) :
            \/ es[k][1] < es[k + 1][1]
            \/ es[k][1] = es[k + 1][1] /\ es[k][2] <= es[k + 1][2]}

\* task.csv with the lines "t1 1.0" .. "tn 1.0"
CheckTaskCsv(n) == [k \in 1 .. n |-> <<TaskName(k), FloatRepr(Fixed(1))>>]

\* what is_dag_valid answers, with the sizes of what was loaded
Validity(dag) ==
    [NoAnalysis EXCEPT
        !.state = "valid",
        !.num_tasks = Len(dag.tasks),
        !.num_dependencies = Len(dag.edges),
        !.is_dag = is_dag_valid(dag.tasks, dag.adj_list, dag.in_degree)]

\* load_dag_from_files followed by is_dag_valid on what it returned
IsDagValid ==
    /\ analysis = NoAnalysis
    /\ files["task.csv"] # NoFile
    /\ files["dag.csv"] # NoFile
    /\ analysis' = Validity(load_dag_from_files(files["task.csv"],
                                                files["dag.csv"]))
    /\ UNCHANGED <<rng, prog, args, exit_status, builder, tasks, edges,
                   total_jobs, vm_instances, files, written, prev, runs, phase,
                   cwd, impact, bandwidths>>

CheckInit ==
    /\ rng = 0
    /\ prog = "none"
    /\ args = NoArgs
    /\ exit_status = -1
    /\ builder = "none"
    /\ tasks = <<>>
    /\ edges = <<>>
    /\ total_jobs = 0
    /\ vm_instances = <<>>
    /\ \E n \in 0 .. MaxCheckTasks, es \in CheckEdgeLists :
          files = [f \in FileNames |->
                      CASE f = "task.csv" -> CheckTaskCsv(n)
                        [] f = "dag.csv" -> DagLines(es)
                        [] OTHER -> NoFile]
    /\ written = {}
    /\ prev = [prog |-> "none", args |-> NoArgs, exit_status |-> -1,
               files |-> [f \in FileNames |-> NoFile]]
    /\ runs = 0
    /\ phase = "analysis"
    /\ analysis = NoAnalysis
    /\ cwd = "generators"
    /\ impact = NoImpact
    /\ bandwidths = <<>>

CheckNext ==
    \/ IsDagValid
    \/ SimpleDagCheck

CheckSpec == CheckInit /\ [][CheckNext]_vars

----------------------------------------------------------------------------
(* creareMontage.py --analyze_ccr: main, analyze_ccr_impact and            *)
(* run_algorithm_and_get_results.  The Java program is the environment: an *)
(* iteration ends in one of the ways run_algorithm_and_get_results can     *)
(* end.  "../algorithms" and "../data" name the same two directories from  *)
(* the directory generators and from the directory algorithms.             *)

\* --scale, --num_vms, --ccr_range (as parsed by float, thousandths; not ok
\* when the text has no two numbers) and --num_points
AnalyzeArgs ==
    [scale : {"small", "medium"}, num_vms : {5},
     ccr_range : {[ok |-> TRUE, lo |-> 400, hi |-> 2000],
                  [ok |-> TRUE, lo |-> 2000, hi |-> 400],
                  [ok |-> TRUE, lo |-> 50, hi |-> 2000],
                  [ok |-> TRUE, lo |-> 400, hi |-> 5500],
                  [ok |-> FALSE, lo |-> 0, hi |-> 0]},
     num_points : 0 .. MaxPoints]

\* the try block of run_algorithm_and_get_results, entered in original_dir:
\* where it leaves the process, whether it returns a result with both
\* metrics, and whether it ends by an exception (os.chdir or subprocess.run
\* raising).  Every other end is a "return None".
AlgorithmTry(original_dir, outcome) ==
    [cwd |-> IF outcome = "chdir_error" THEN original_dir ELSE "algorithms",
     result |-> outcome = "success",
     raised |-> outcome \in {"chdir_error", "java_missing"}]

\* run_algorithm_and_get_results that has no finally clause
RunAlgorithmWithoutFinally(original_dir, outcome) ==
    AlgorithmTry(original_dir, outcome)

\* original_dir = os.getcwd(); try: ...; finally: os.chdir(original_dir)
run_algorithm_and_get_results(original_dir, outcome) ==
    [AlgorithmTry(original_dir, outcome) EXCEPT !.cwd = original_dir]

\* what a builder called in the running process leaves: its lists, the
\* files it wrote over the older ones, and the generator
Leave(res) ==
    /\ builder' = res.builder
    /\ tasks' = res.tasks
    /\ edges' = res.edges
    /\ total_jobs' = res.total_jobs
    /\ vm_instances' = res.vm_instances
    /\ files' = [f \in FileNames |->
                    IF f \in DOMAIN res.files THEN res.files[f] ELSE files[f]]
    /\ written' = DOMAIN res.files
    /\ rng' = res.rng

\* main with --analyze_ccr: the checks on --ccr_range, then the entry of
\* analyze_ccr_impact, which has not yet started its loop
AnalyzeCcrMain(a, seed) ==
    /\ prog = "none"
    /\ prog' = "creareMontage.py"
    /\ args' = a
    /\ rng' = seed
    /\ runs' = runs + 1
    /\ IF \/ ~a.ccr_range.ok
          \/ a.ccr_range.lo >= a.ccr_range.hi
          \/ a.ccr_range.lo < 100
          \/ a.ccr_range.hi > 5000
       THEN /\ exit_status' = 1
            /\ impact' = impact
       ELSE /\ exit_status' = exit_status
            /\ impact' = [NoImpact EXCEPT !.pc = "loop", !.entry = cwd]
    /\ UNCHANGED <<builder, tasks, edges, total_jobs, vm_instances, files,
                   written, prev, phase, analysis, cwd, bandwidths>>

\* one turn of "for i, ccr in enumerate(ccr_values)", ccr being
\* np.linspace(lo, hi, num_points)[i]: create_montage_workflow_ccr, then
\* run_algorithm_and_get_results, whose result is kept when it has both
\* metrics; an exception leaves the loop and the process
AnalyzeCcrIteration(outcome) ==
    /\ impact.pc = "loop"
    /\ impact.i < args.num_points
    /\ LET ccr == IF args.num_points = 1 THEN args.ccr_range.lo
                  ELSE args.ccr_range.lo
                         + (impact.i * (args.ccr_range.hi - args.ccr_range.lo))
                             \div (args.num_points - 1)
       IN /\ Leave(create_montage_workflow_ccr(args.scale, args.num_vms, ccr, rng))
          /\ impact' = [impact EXCEPT
                !.pc = IF run_algorithm_and_get_results(cwd, outcome).raised
                       THEN "raised" ELSE "loop",
                !.i = @ + 1,
                !.valid = IF run_algorithm_and_get_results(cwd, outcome).result
                          THEN @ + 1 ELSE @,
                !.ccr = ccr,
                !.rng0 = rng,
                !.outcome = outcome]
    /\ cwd' = run_algorithm_and_get_results(cwd, outcome).cwd
    /\ exit_status' = IF run_algorithm_and_get_results(cwd, outcome).raised
                      THEN 1 ELSE exit_status
    /\ UNCHANGED <<prog, args, prev, runs, phase, analysis, bandwidths>>

\* the loop is over: the plots and the summary (not modelled), and the
\* process ends
AnalyzeCcrEnd ==
    /\ impact.pc = "loop"
    /\ impact.i = args.num_points
    /\ impact' = [impact EXCEPT !.pc = "done"]
    /\ exit_status' = 0
    /\ UNCHANGED <<rng, prog, args, builder, tasks, edges, total_jobs,
                   vm_instances, files, written, prev, runs, phase, analysis,
                   cwd, bandwidths>>

----------------------------------------------------------------------------
(* pegasus_workflow_generator.py: workflow_to_csv.  The workflow comes     *)
(* from WfCommons, which is the environment: workflow.nodes is a sequence  *)
(* holding each node's 'runtime' (<<>> when the key is absent), and        *)
(* workflow.edges a sequence of [u, v, weight] between positions of nodes  *)
(* (weight <<>> when the key is absent).  Every call reseeds the generator *)
(* and writes into a directory of its own, so one call is one behaviour.   *)

\* the workflows handed over: no node at all up to MaxNodes nodes, and up
\* to MaxArcs edges, each from a node to a later one, no edge twice
Workflows ==
    UNION {[nodes : [1 .. n -> {<<>>, <<0>>, <<Fixed(4)>>}],
            edges : {e \in UNION {[1 .. m ->
                                     {a \in [u : 1 .. n, v : 1 .. n,
                                             weight : {<<>>, <<0>>, <<Fixed(7)>>}] :
                                         a.u < a.v}] : m \in 0 .. MaxArcs} :
                        \A i, j \in DOMAIN e :
                            i < j => e[i].u * n + e[i].v < e[j].u * n + e[j].v}]
           : n \in 0 .. MaxNodes}

\* draws made when the first k nodes are done: the default of
\* task_data.get('runtime', random.uniform(2.0, 25.0)) is drawn for every
\* node, and a runtime <= 0 is replaced by one more draw
PegasusDraws(nodes, k) ==
    k + Cardinality({j \in 1 .. k : nodes[j] # <<>> /\ nodes[j][1] <= 0})

\* the list tasks of workflow_to_csv, from the generator r0
PegasusTasks(nodes, r0) ==
    [k \in 1 .. Len(nodes) |->
        [id |-> k,
         size |-> IF nodes[k] = <<>>
                  THEN Uniform(Fixed(2), Fixed(25),
                               RandomAt(r0, PegasusDraws(nodes, k - 1) + 1))
                  ELSE IF nodes[k][1] <= 0
                  THEN Uniform(Fixed(2), Fixed(25),
                               RandomAt(r0, PegasusDraws(nodes, k - 1) + 2))
                  ELSE nodes[k][1]]]

\* sum(t['size'] for t in tasks)
RECURSIVE SumSizes(_)
SumSizes(ts) == IF ts = <<>> THEN 0 ELSE Head(ts).size + SumSizes(Tail(ts))

\* data_size that keeps a weight that is not positive
DataSizeOfAnyWeight(weight, avg_task_size, ccr) ==
    IF weight = <<>> THEN (avg_task_size * ccr) \div 1000 ELSE weight[1]

\* data_size = edge_data.get('weight', avg_task_size * ccr), replaced by
\* avg_task_size * ccr when it is <= 0
DataSize(weight, avg_task_size, ccr) ==
    IF weight = <<>> THEN (avg_task_size * ccr) \div 1000
    ELSE IF weight[1] <= 0 THEN (avg_task_size * ccr) \div 1000
    ELSE weight[1]

\* the lists edges, vms and bandwidth, built in this order after the list
\* tasks (ts); r is the generator after the loop over the nodes
PegasusLists(ts, workflow, num_vms, ccr, r) ==
    [tasks |-> ts,
     edges |-> [k \in 1 .. Len(workflow.edges) |->
                   [pred |-> workflow.edges[k].u,
                    succ |-> workflow.edges[k].v,
                    data |-> DataSize(workflow.edges[k].weight,
                                      SumSizes(ts) \div Len(ts), ccr)]],
     vms |-> [i \in 1 .. num_vms |->
                 [id |-> i - 1,
                  processing_capacity |->
                      Uniform(Fixed(10), Fixed(20), RandomAt(r, i))]],
     bandwidth |-> [c \in 1 .. num_vms * num_vms |->
                 [vm_i |-> (c - 1) \div num_vms,
                  vm_j |-> (c - 1) % num_vms,
                  bandwidth |->
                      IF (c - 1) \div num_vms = (c - 1) % num_vms THEN "inf"
                      ELSE Uniform(Fixed(20), Fixed(30),
                               RandomAt(r, num_vms + 1
                                   + DrawsBefore(num_vms,
                                                 ((c - 1) \div num_vms) + 1,
                                                 ((c - 1) % num_vms) + 1)))]],
     rng |-> RandomAt(r, num_vms + num_vms * (num_vms - 1))]

\* the four csv files, each with its header row; the list bandwidth is
\* written nowhere.  The function returns len(tasks) and len(edges).
PegasusFiles(l) ==
    [builder |-> "workflow_to_csv",
     total_jobs |-> Len(l.tasks),
     tasks |-> l.tasks,
     edges |-> l.edges,
     vm_instances |-> l.vms,
     bandwidth |-> l.bandwidth,
     files |-> [f \in FileNames |->
         CASE f = "task.csv" ->
                 << <<Tok("id", 0, 0), Tok("size", 0, 0)>> >> \o
                 [k \in 1 .. Len(l.tasks) |->
                     <<IntStr(l.tasks[k].id), FloatRepr(l.tasks[k].size)>>]
           [] f = "dag.csv" ->
                 << <<Tok("pred", 0, 0), Tok("succ", 0, 0), Tok("data", 0, 0)>> >> \o
                 [k \in 1 .. Len(l.edges) |->
                     <<IntStr(l.edges[k].pred), IntStr(l.edges[k].succ),
                       FloatRepr(l.edges[k].data)>>]
           [] f = "vm.csv" ->
                 << <<Tok("id", 0, 0)>> >> \o
                 [k \in 1 .. Len(l.vms) |-> <<IntStr(l.vms[k].id)>>]
           [] f = "processing_capacity.csv" ->
                 << <<Tok("vm_id", 0, 0), Tok("processing_capacity", 0, 0)>> >> \o
                 [k \in 1 .. Len(l.vms) |->
                     <<IntStr(l.vms[k].id),
                       FloatRepr(l.vms[k].processing_capacity)>>]],
     rng |-> l.rng]

\* random.seed(42), the lists, the files
workflow_to_csv(workflow, num_vms, ccr) ==
    PegasusFiles(
        PegasusLists(PegasusTasks(workflow.nodes, 42 % RandMod), workflow,
                     num_vms, ccr,
                     RandomAt(42 % RandMod,
                              PegasusDraws(workflow.nodes, Len(workflow.nodes)))))

\* one call of workflow_to_csv from generate_exp1_workflows or
\* generate_exp2_workflows.  With no node avg_task_size divides by zero:
\* the caller catches the exception and nothing has been written.
WorkflowToCsv(workflow, num_vms, ccr) ==
    /\ prog = "none"
    /\ prog' = "pegasus_workflow_generator.py"
    /\ args' = [workflow |-> workflow, num_vms |-> num_vms, ccr |-> ccr]
    /\ runs' = runs + 1
    /\ IF workflow.nodes = <<>>
       THEN /\ rng' = 42 % RandMod
            /\ UNCHANGED <<builder, tasks, edges, total_jobs, vm_instances,
                           files, written, bandwidths>>
       ELSE /\ Leave(workflow_to_csv(workflow, num_vms, ccr))
            /\ bandwidths' = workflow_to_csv(workflow, num_vms, ccr).bandwidth
    /\ UNCHANGED <<exit_status, prev, phase, analysis, cwd, impact>>

CcrNext ==
    \/ \E a \in AnalyzeArgs, seed \in Seeds : AnalyzeCcrMain(a, seed)
    \/ \E outcome \in {"compile_error", "run_error", "no_metrics", "success",
                       "chdir_error", "java_missing"} :
          AnalyzeCcrIteration(outcome)
    \/ AnalyzeCcrEnd
    \/ /\ prog = "none"
       /\ \E workflow \in Workflows, num_vms \in {2}, ccr \in {0, 500, 2000} :
              WorkflowToCsv(workflow, num_vms, ccr)

CcrSpec == Init /\ [][CcrNext]_vars

----------------------------------------------------------------------------
(* Properties of the workflow builders *)

ArchetypeBuilders ==
    {"create_montage_workflow", "create_cybershake_workflow",
     "create_ligo_workflow", "create_epigenomics_workflow"}

\* number of tasks of a type in the builder's task list
CountType(type) == Cardinality({k \in DOMAIN tasks : tasks[k].type = type})

\* C1: the tasks of an archetype builder carry the ids 1, 2, ..., N in the
\* order of their creation, N being the number of tasks: the k-th task
\* created has id k, so every id of 1..N is used exactly once.
C1_TaskIdsContiguous ==
    builder \in ArchetypeBuilders =>
        \A k \in 1 .. Len(tasks) : tasks[k].id = k

C1_Witness ==
    /\ builder = "create_ligo_workflow"
    /\ Len(tasks) >= 10
    /\ tasks[Len(tasks)].id = Len(tasks)

\* C2: in a workflow of an archetype builder every dependency id of a task
\* is strictly smaller than the task's id, and so is the source of every
\* edge with respect to its target.
C2_DependenciesPrecede ==
    builder \in ArchetypeBuilders =>
        /\ \A k \in 1 .. Len(tasks) :
              \A d \in 1 .. Len(tasks[k].dependencies) :
                  tasks[k].dependencies[d] < tasks[k].id
        /\ \A e \in 1 .. Len(edges) : edges[e][1] < edges[e][2]

C2_Witness ==
    /\ builder = "create_ligo_workflow"
    /\ \E k \in 1 .. Len(tasks) :
          tasks[k].type = "Thinca" /\ Len(tasks[k].dependencies) >= 2

\* the keys of the loaded tasks
TaskKeys(task_items) == {task_items[k][1] : k \in DOMAIN task_items}

\* every loaded edge joins two loaded tasks
EdgesJoinTasks(task_items, es) ==
    \A k \in DOMAIN es :
        es[k][1] \in TaskKeys(task_items) /\ es[k][2] \in TaskKeys(task_items)

\* C3: once an archetype builder has written its files, every edge of
\* dag.csv has both endpoints among the tasks of task.csv, and is_dag_valid
\* on the loaded files answers True.
C3_DagFilesValid ==
    builder \in ArchetypeBuilders /\ analysis # NoAnalysis =>
        /\ analysis.is_dag
        /\ EdgesJoinTasks(LoadTasks(files["task.csv"]), LoadEdges(files["dag.csv"]))

C3_Witness ==
    /\ builder = "create_epigenomics_workflow"
    /\ analysis # NoAnalysis
    /\ analysis.is_dag
    /\ analysis.num_tasks = Len(tasks)
    /\ analysis.num_dependencies > analysis.num_tasks

\* C4: create_montage_workflow with k images creates 5k + 2 tasks: k of
\* each of the five per-image types, one mAdd and one mJPEG.
C4_MontageTaskCount ==
    builder = "create_montage_workflow" =>
        /\ Len(tasks) = 5 * args.images + 2
        /\ \A type \in {"mProject", "mDiffFit", "mConcatFit", "mBgModel",
                        "mBackground"} : CountType(type) = args.images
        /\ CountType("mAdd") = 1
        /\ CountType("mJPEG") = 1

C4_Witness ==
    /\ builder = "create_montage_workflow"
    /\ args.images >= 2
    /\ Len(tasks) = 5 * args.images + 2

\* C5: create_cybershake_workflow with s sites, v SGT variations and p PSA
\* filters creates 1 + s(1 + v + p) + s + 1 tasks.
C5_CyberShakeTaskCount ==
    builder = "create_cybershake_workflow" =>
        Len(tasks) = 1 + args.sites * (1 + args.sgt_variations + args.psa_filters)
                       + args.sites + 1

C5_Witness ==
    /\ builder = "create_cybershake_workflow"
    /\ args.sites >= 2 /\ args.sgt_variations >= 2 /\ args.psa_filters >= 2
    /\ Len(tasks) >= 14

\* C6: the edge list of an archetype builder has no self-loop and no pair
\* (from, to) twice, down to the smallest parameters.
C6_EdgesSimple ==
    builder \in ArchetypeBuilders =>
        /\ \A e \in 1 .. Len(edges) : edges[e][1] # edges[e][2]
        /\ \A e, f \in 1 .. Len(edges) : e # f => edges[e] # edges[f]

C6_Witness ==
    /\ builder = "create_epigenomics_workflow"
    /\ args.samples = 1
    /\ Len(edges) >= 10

----------------------------------------------------------------------------
(* Properties of the entry points and of the resource builders *)

\* the last run was given a size parameter outside its accepted range
SizeOutOfRange ==
    \/ /\ prog = "creareMontage.py"
       /\ args.has_images
       /\ (args.images < 1 \/ args.images > 200)
    \/ /\ prog = "creareDAG.py"
       /\ \/ args.sites < 1 \/ args.sites > 100
          \/ args.sgt_variations < 1 \/ args.sgt_variations > 10
          \/ args.psa_filters < 1 \/ args.psa_filters > 10
    \/ /\ prog = "creareLIGO.py"
       /\ \/ args.segments < 1 \/ args.segments > 1000
          \/ args.templates < 1 \/ args.templates > 50
    \/ /\ prog = "creareEpigenomics.py"
       /\ \/ args.samples < 1 \/ args.samples > 100
          \/ args.chromosomes < 1 \/ args.chromosomes > 24
          \/ args.analyses < 1 \/ args.analyses > 5

\* C7: a run given a size parameter outside its accepted range ends with
\* exit status 1 before any builder is called: no task, no edge, and no
\* CSV file written.
C7_OutOfRangeRejected ==
    SizeOutOfRange =>
        /\ exit_status = 1
        /\ builder = "none"
        /\ tasks = <<>>
        /\ edges = <<>>
        /\ written = {}

\* C8: in every vm.csv the generators write, the diagonal entry of every
\* row is exactly 0 (row i is line i + 1, its entry i is token i + 1).
C8_DiagonalZero ==
    files["vm.csv"] # NoFile =>
        \A i \in 2 .. Len(files["vm.csv"]) : files["vm.csv"][i][i].num = 0

C8_Witness ==
    /\ builder = "create_ligo_workflow"
    /\ phase = "generate"
    /\ Len(files["vm.csv"]) = 36
    /\ files["vm.csv"][2][3].num > 0
    /\ files["vm.csv"][36][36].num = 0

\* C9: in the vm.csv of an archetype resource builder the entry for (i, j)
\* equals the entry for (j, i), whatever the draws.
C9_BandwidthSymmetric ==
    /\ builder \in ArchetypeBuilders
    /\ phase = "generate"
    /\ files["vm.csv"] # NoFile
    => \A i, j \in 2 .. Len(files["vm.csv"]) :
           files["vm.csv"][i][j] = files["vm.csv"][j][i]

\* C10: a second run of the same archetype generator with the same
\* parameters leaves the same four CSV files as the first.
C10_RunsReproducible ==
    /\ runs >= 2
    /\ builder \in ArchetypeBuilders
    /\ prev.prog = prog /\ prev.args = args /\ prev.exit_status = 0
    /\ phase = "generate"
    => \A f \in FileNames : files[f] = prev.files[f]

----------------------------------------------------------------------------
(* Properties of the files read back by simple_dag_check *)

\* the largest member of a non-empty set of numbers
MaxOf(S) == CHOOSE m \in S : \A x \in S : x <= m

\* level of every task from the builder's own lists, in the order of
\* creation: 0 without dependencies, else one more than the deepest of them
RECURSIVE MemoryLevels(_, _)
MemoryLevels(ts, lv) ==
    IF Len(lv) >= Len(ts) THEN lv
    ELSE MemoryLevels(ts,
            Append(lv,
                IF ts[Len(lv) + 1].dependencies = <<>> THEN 0
                ELSE 1 + MaxOf({lv[ts[Len(lv) + 1].dependencies[d]] :
                                  d \in DOMAIN ts[Len(lv) + 1].dependencies})))

\* C11: the files of an archetype builder, read back by load_dag_from_files,
\* give the builder's task ids (as many, in the same order) and its edge
\* pairs (as many, in the same order), and the depth found for every task is
\* its level in the builder's own task list; comment lines add nothing.
C11_RoundTrip ==
    builder \in ArchetypeBuilders /\ analysis.state = "done" =>
        /\ analysis.num_tasks = Len(tasks)
        /\ [k \in 1 .. Len(tasks) |-> LoadTasks(files["task.csv"])[k][1]]
              = [k \in 1 .. Len(tasks) |-> TaskName(tasks[k].id)]
        /\ analysis.num_dependencies = Len(edges)
        /\ LoadEdges(files["dag.csv"])
              = [k \in 1 .. Len(edges) |->
                    <<TaskName(edges[k][1]), TaskName(edges[k][2])>>]
        /\ DOMAIN analysis.depths = {TaskName(tasks[k].id) : k \in DOMAIN tasks}
        /\ \A k \in DOMAIN tasks :
              analysis.depths[TaskName(tasks[k].id)] = MemoryLevels(tasks, <<>>)[k]

C11_Witness ==
    /\ builder = "create_ligo_workflow"
    /\ analysis.state = "done"
    /\ files["task.csv"][1][1] = Hash
    /\ files["dag.csv"][1][1] = Hash
    /\ analysis.num_tasks = Len(tasks)
    /\ analysis.num_tasks >= 20
    /\ analysis.max_depth = 5

----------------------------------------------------------------------------
(* Properties of is_dag_valid and analyze_dag_structure on any files *)

\* the pairs joined by a path of one or more of the edges R, found by
\* joining paths n times over
RECURSIVE PathPairs(_, _)
PathPairs(R, n) ==
    IF n = 0 THEN R
    ELSE PathPairs(R \cup {<<x[1][1], x[2][2]>> :
                              x \in {y \in R \X R : y[1][2] = y[2][1]}}, n - 1)

\* some path of the loaded edges leads from a node back to itself
HasCycle(es) ==
    \E p \in PathPairs({es[k] : k \in DOMAIN es}, Len(es)) : p[1] = p[2]

\* the loaded tasks and edges of the data directory
LoadedTasks == LoadTasks(files["task.csv"])
LoadedEdges == LoadEdges(files["dag.csv"])

\* C12: on a task set and an edge list whose endpoints are all tasks (an
\* edge may repeat or join a task to itself), is_dag_valid answers True
\* exactly when no path of the edges leads from a task back to itself.
C12_ValidIffAcyclic ==
    analysis.state = "valid" /\ EdgesJoinTasks(LoadedTasks, LoadedEdges) =>
        (analysis.is_dag <=> ~HasCycle(LoadedEdges))

C12_Witness ==
    /\ analysis.state = "valid"
    /\ EdgesJoinTasks(LoadedTasks, LoadedEdges)
    /\ analysis.num_tasks = 3
    /\ analysis.num_dependencies = 3
    /\ HasCycle(LoadedEdges)
    /\ \A k \in DOMAIN LoadedEdges : LoadedEdges[k][1] # LoadedEdges[k][2]
    /\ ~analysis.is_dag

\* the tasks with an edge into t
Predecessors(es, t) == {es[k][1] : k \in {j \in DOMAIN es : es[j][2] = t}}

\* level of t over acyclic edges: 0 for a root, else one more than the
\* largest level of its predecessors
RECURSIVE Level(_, _)
Level(es, t) ==
    IF Predecessors(es, t) = {} THEN 0
    ELSE 1 + MaxOf({Level(es, p) : p \in Predecessors(es, t)})

\* C13: on an acyclic graph the depth analyze_dag_structure assigns to a
\* task is 0 for a root and one more than the largest depth of its
\* predecessors otherwise, and max_depth is the largest of these depths;
\* on A->D, A->B->D the depth of D is 2.
C13_DepthIsLevel ==
    /\ analysis.state = "done"
    /\ EdgesJoinTasks(LoadedTasks, LoadedEdges)
    /\ ~HasCycle(LoadedEdges)
    => /\ DOMAIN analysis.depths = TaskKeys(LoadedTasks)
       /\ \A t \in TaskKeys(LoadedTasks) :
             analysis.depths[t] = Level(LoadedEdges, t)
       /\ analysis.max_depth =
             MaxOf({0} \cup {Level(LoadedEdges, t) : t \in TaskKeys(LoadedTasks)})

C13_Witness ==
    /\ analysis.state = "done"
    /\ analysis.num_tasks = 3
    /\ LoadedEdges = << <<TaskName(1), TaskName(2)>>, <<TaskName(1), TaskName(3)>>,
                        <<TaskName(2), TaskName(3)>> >>
    /\ analysis.depths[TaskName(3)] = 2
    /\ analysis.max_depth = 2

\* C14: on an acyclic graph critical_path_length is the number of edges of
\* the longest path from a root to a leaf (n - 1 on a chain of n tasks), the
\* longer one where a leaf is reached by a short and by a long path.
C14_CriticalPathIsLongest ==
    /\ analysis.state = "done"
    /\ EdgesJoinTasks(LoadedTasks, LoadedEdges)
    /\ ~HasCycle(LoadedEdges)
    /\ analysis.num_tasks >= 1
    => analysis.critical_path_length =
           MaxOf({Level(LoadedEdges, analysis.leaves[k]) :
                     k \in DOMAIN analysis.leaves})

\* the loaded edges that join two loaded tasks
EdgesAmongTasks ==
    SelectSeq(LoadedEdges, LAMBDA e : e[1] \in TaskKeys(LoadedTasks)
                                      /\ e[2] \in TaskKeys(LoadedTasks))

\* C15: when the loaded edges hold a cycle among the tasks, or an edge one
\* of whose endpoints is no task of task.csv, is_dag_valid answers False.
C15_DefectsRejected ==
    /\ analysis.state = "valid"
    /\ \/ HasCycle(EdgesAmongTasks)
       \/ ~EdgesJoinTasks(LoadedTasks, LoadedEdges)
    => ~analysis.is_dag

----------------------------------------------------------------------------
(* Properties of the shape of each archetype *)

\* the ids of the builder's tasks of a type, in the order of creation
IdsOfType(type) ==
    LET of == SelectSeq(tasks, LAMBDA t : t.type = type)
    IN [k \in 1 .. Len(of) |-> of[k].id]

\* the ids with an edge into the task id
EdgeSources(id) == {edges[k][1] : k \in {j \in DOMAIN edges : edges[j][2] = id}}

\* every Injection task depends on TemplateBank and on nothing else
InjectionOnTemplateBank ==
    \A k \in DOMAIN tasks :
        tasks[k].type = "Injection" =>
            /\ tasks[k].dependencies = IdsOfType("TemplateBank")
            /\ Len(IdsOfType("TemplateBank")) = 1
            /\ EdgeSources(tasks[k].id) = {IdsOfType("TemplateBank")[1]}

\* C16 as stated: create_ligo_workflow with s segments creates
\* max(1, ceil(s / 10)) Injection tasks, each with TemplateBank as its only
\* predecessor.
C16_InjectionCeil ==
    builder = "create_ligo_workflow" =>
        /\ CountType("Injection") = Max(1, (args.segments + 9) \div 10)
        /\ InjectionOnTemplateBank

\* C16 amended: create_ligo_workflow with s segments creates
\* max(1, floor(s / 10)) Injection tasks, each with TemplateBank as its only
\* predecessor.
C16_InjectionFloor ==
    builder = "create_ligo_workflow" =>
        /\ CountType("Injection") = Max(1, args.segments \div 10)
        /\ InjectionOnTemplateBank

C16_Witness ==
    /\ builder = "create_ligo_workflow"
    /\ args.segments = 20
    /\ CountType("Injection") = 2
    /\ InjectionOnTemplateBank

\* the builder's tasks of a type, in the order of creation
TasksOfType(type) == SelectSeq(tasks, LAMBDA t : t.type = type)

\* the DifferentialAnalysis tasks that have the task id among their
\* dependencies
GroupsOf(id) ==
    {g \in DOMAIN TasksOfType("DifferentialAnalysis") :
        \E d \in DOMAIN TasksOfType("DifferentialAnalysis")[g].dependencies :
            TasksOfType("DifferentialAnalysis")[g].dependencies[d] = id}

\* C17 as stated: create_epigenomics_workflow pairs the samples: every
\* DifferentialAnalysis task g (from 0) has exactly the Annotations of the
\* samples 2g and 2g + 1 as predecessors, and every sample's Annotation is a
\* predecessor of exactly one DifferentialAnalysis task.
C17_SamplesPaired ==
    builder = "create_epigenomics_workflow" =>
        /\ \A g \in DOMAIN TasksOfType("DifferentialAnalysis") :
              /\ 2 * g <= Len(IdsOfType("Annotation"))
              /\ TasksOfType("DifferentialAnalysis")[g].dependencies
                    = <<IdsOfType("Annotation")[2 * g - 1],
                        IdsOfType("Annotation")[2 * g]>>
        /\ \A s \in DOMAIN IdsOfType("Annotation") :
              Cardinality(GroupsOf(IdsOfType("Annotation")[s])) = 1

\* C17 amended: with n samples there are max(1, floor(n / 2))
\* DifferentialAnalysis tasks; task g (from 0) has as predecessors exactly
\* the Annotations of those of the samples 2g and 2g + 1 that exist (both,
\* unless n = 1), and a sample's Annotation is a predecessor of exactly one
\* DifferentialAnalysis task, except that of the last sample of an odd
\* n >= 3, which is a predecessor of none.
C17_SamplesGrouped ==
    builder = "create_epigenomics_workflow" =>
        /\ Len(IdsOfType("Annotation")) = args.samples
        /\ Len(TasksOfType("DifferentialAnalysis")) = Max(1, args.samples \div 2)
        /\ \A g \in DOMAIN TasksOfType("DifferentialAnalysis") :
              /\ TasksOfType("DifferentialAnalysis")[g].dependencies
                    = [k \in 1 .. Min(2, args.samples - 2 * (g - 1)) |->
                          IdsOfType("Annotation")[2 * (g - 1) + k]]
              /\ EdgeSources(TasksOfType("DifferentialAnalysis")[g].id)
                    = {IdsOfType("Annotation")[2 * (g - 1) + k] :
                          k \in 1 .. Min(2, args.samples - 2 * (g - 1))}
        /\ \A s \in 1 .. args.samples :
              Cardinality(GroupsOf(IdsOfType("Annotation")[s]))
                 = IF s = args.samples /\ args.samples % 2 = 1 /\ args.samples >= 3
                   THEN 0 ELSE 1

C17_Witness ==
    /\ builder = "create_epigenomics_workflow"
    /\ args.samples = 3
    /\ Len(TasksOfType("DifferentialAnalysis")) = 1
    /\ Len(TasksOfType("DifferentialAnalysis")[1].dependencies) = 2
    /\ GroupsOf(IdsOfType("Annotation")[3]) = {}

\* the ids of the tasks of a type that the site (from 0) created, when every
\* site creates per of them
SiteIds(type, site, per) == {IdsOfType(type)[site * per + k] : k \in 1 .. per}

\* the ids in a list of dependencies
DependencySet(deps) == {deps[d] : d \in DOMAIN deps}

\* C18: in create_cybershake_workflow with s sites, v SGT variations and p
\* PSA filters, every PSA task has as predecessors exactly the v GenSGT tasks
\* of its own site (those created under the site's GenCVM), which gives
\* s * v * p edges from a GenSGT to a PSA; the ZipPSA of a site has exactly
\* the site's p PSA tasks as predecessors, and PostProcess exactly the s
\* ZipPSA tasks.
C18_CyberShakeFanOut ==
    builder = "create_cybershake_workflow" =>
        /\ Len(IdsOfType("GenCVM")) = args.sites
        /\ Len(IdsOfType("GenSGT")) = args.sites * args.sgt_variations
        /\ Len(IdsOfType("PSA")) = args.sites * args.psa_filters
        /\ Len(IdsOfType("ZipPSA")) = args.sites
        /\ \A j \in DOMAIN TasksOfType("GenSGT") :
              TasksOfType("GenSGT")[j].dependencies
                 = <<IdsOfType("GenCVM")[((j - 1) \div args.sgt_variations) + 1]>>
        /\ \A j \in DOMAIN TasksOfType("PSA") :
              /\ Len(TasksOfType("PSA")[j].dependencies) = args.sgt_variations
              /\ DependencySet(TasksOfType("PSA")[j].dependencies)
                    = SiteIds("GenSGT", (j - 1) \div args.psa_filters,
                              args.sgt_variations)
              /\ EdgeSources(TasksOfType("PSA")[j].id)
                    = SiteIds("GenSGT", (j - 1) \div args.psa_filters,
                              args.sgt_variations)
        /\ Cardinality({e \in DOMAIN edges :
                            /\ edges[e][1] \in DependencySet(IdsOfType("GenSGT"))
                            /\ edges[e][2] \in DependencySet(IdsOfType("PSA"))})
              = args.sites * args.sgt_variations * args.psa_filters
        /\ \A i \in DOMAIN TasksOfType("ZipPSA") :
              /\ Len(TasksOfType("ZipPSA")[i].dependencies) = args.psa_filters
              /\ DependencySet(TasksOfType("ZipPSA")[i].dependencies)
                    = SiteIds("PSA", i - 1, args.psa_filters)
              /\ EdgeSources(TasksOfType("ZipPSA")[i].id)
                    = SiteIds("PSA", i - 1, args.psa_filters)
        /\ Len(TasksOfType("PostProcess")) = 1
        /\ TasksOfType("PostProcess")[1].dependencies = IdsOfType("ZipPSA")
        /\ EdgeSources(TasksOfType("PostProcess")[1].id)
              = DependencySet(IdsOfType("ZipPSA"))

C18_Witness ==
    /\ builder = "create_cybershake_workflow"
    /\ args.sites = 2 /\ args.sgt_variations = 2 /\ args.psa_filters = 2
    /\ Len(TasksOfType("PSA")) = 4
    /\ TasksOfType("PSA")[3].dependencies = <<IdsOfType("GenSGT")[3], IdsOfType("GenSGT")[4]>>
    /\ Len(TasksOfType("PostProcess")[1].dependencies) = 2

\* the Inspiral tasks of the segments 4g .. min(4g + 3, s - 1), segments and
\* g counted from 0; the Inspiral tasks are created segment by segment, one
\* per template
InspiralOfGroup(g) ==
    {IdsOfType("Inspiral")[j] :
        j \in {i \in DOMAIN IdsOfType("Inspiral") :
                  /\ (i - 1) \div args.templates >= 4 * g
                  /\ (i - 1) \div args.templates <= Min(4 * g + 3, args.segments - 1)}}

\* the edges from the task id into a task of the type
EdgesInto(id, type) ==
    {e \in DOMAIN edges :
        edges[e][1] = id /\ edges[e][2] \in DependencySet(IdsOfType(type))}

\* C19: create_ligo_workflow with s segments and t templates creates
\* ceil(s / 4) Coincidence tasks; the g-th (from 0) depends on exactly the
\* Inspiral tasks, of every template, of the segments 4g .. min(4g + 3, s - 1);
\* every Inspiral task feeds exactly one Coincidence task and has exactly two
\* predecessors, the DataFind of its segment and the TemplateBank.
C19_CoincidenceBatches ==
    builder = "create_ligo_workflow" =>
        /\ Len(IdsOfType("DataFind")) = args.segments
        /\ Len(IdsOfType("TemplateBank")) = 1
        /\ Len(IdsOfType("Inspiral")) = args.segments * args.templates
        /\ Len(IdsOfType("Coincidence")) = (args.segments + 3) \div 4
        /\ \A g \in DOMAIN TasksOfType("Coincidence") :
              /\ DependencySet(TasksOfType("Coincidence")[g].dependencies)
                    = InspiralOfGroup(g - 1)
              /\ Len(TasksOfType("Coincidence")[g].dependencies)
                    = Cardinality(InspiralOfGroup(g - 1))
              /\ Cardinality(InspiralOfGroup(g - 1))
                    = args.templates * (Min(4 * g, args.segments) - 4 * (g - 1))
              /\ EdgeSources(TasksOfType("Coincidence")[g].id) = InspiralOfGroup(g - 1)
        /\ \A j \in DOMAIN TasksOfType("Inspiral") :
              /\ Cardinality({g \in DOMAIN TasksOfType("Coincidence") :
                     TasksOfType("Inspiral")[j].id \in
                        DependencySet(TasksOfType("Coincidence")[g].dependencies)}) = 1
              /\ Cardinality(EdgesInto(TasksOfType("Inspiral")[j].id, "Coincidence")) = 1
              /\ TasksOfType("Inspiral")[j].dependencies
                    = <<IdsOfType("DataFind")[((j - 1) \div args.templates) + 1],
                        IdsOfType("TemplateBank")[1]>>
              /\ EdgeSources(TasksOfType("Inspiral")[j].id)
                    = {IdsOfType("DataFind")[((j - 1) \div args.templates) + 1],
                       IdsOfType("TemplateBank")[1]}
              /\ Cardinality(EdgeSources(TasksOfType("Inspiral")[j].id)) = 2

C19_Witness ==
    /\ builder = "create_ligo_workflow"
    /\ args.segments = 5 /\ args.templates = 2
    /\ Len(TasksOfType("Coincidence")) = 2
    /\ Len(TasksOfType("Coincidence")[1].dependencies) = 8
    /\ TasksOfType("Coincidence")[2].dependencies
          = <<IdsOfType("Inspiral")[9], IdsOfType("Inspiral")[10]>>

\* the task types of the chain of one image, in the order of the chain
MontageChain == <<"mProject", "mDiffFit", "mConcatFit", "mBgModel", "mBackground">>

\* the ids of the tasks of the chain of the image i (from 1)
ChainIds(i) == {IdsOfType(MontageChain[c])[i] : c \in DOMAIN MontageChain}

\* C20: create_montage_workflow with k images gives every image the chain
\* mProject -> mDiffFit -> mConcatFit -> mBgModel -> mBackground, no edge
\* joins the chains of two images, mAdd has exactly the k mBackground tasks
\* as predecessors, mJPEG has mAdd alone, and there are 5k + 1 edges.
C20_MontageChains ==
    builder = "create_montage_workflow" =>
        /\ \A c \in DOMAIN MontageChain :
              Len(IdsOfType(MontageChain[c])) = args.images
        /\ \A i \in 1 .. args.images :
              /\ TasksOfType("mProject")[i].dependencies = <<>>
              /\ EdgeSources(IdsOfType("mProject")[i]) = {}
              /\ \A c \in 2 .. Len(MontageChain) :
                    /\ TasksOfType(MontageChain[c])[i].dependencies
                          = <<IdsOfType(MontageChain[c - 1])[i]>>
                    /\ EdgeSources(IdsOfType(MontageChain[c])[i])
                          = {IdsOfType(MontageChain[c - 1])[i]}
        /\ \A e \in DOMAIN edges :
              \A i, j \in 1 .. args.images :
                  edges[e][1] \in ChainIds(i) /\ edges[e][2] \in ChainIds(j) => i = j
        /\ Len(TasksOfType("mAdd")) = 1
        /\ TasksOfType("mAdd")[1].dependencies = IdsOfType("mBackground")
        /\ EdgeSources(IdsOfType("mAdd")[1]) = DependencySet(IdsOfType("mBackground"))
        /\ Cardinality(EdgeSources(IdsOfType("mAdd")[1])) = args.images
        /\ Len(TasksOfType("mJPEG")) = 1
        /\ TasksOfType("mJPEG")[1].dependencies = IdsOfType("mAdd")
        /\ EdgeSources(IdsOfType("mJPEG")[1]) = {IdsOfType("mAdd")[1]}
        /\ Len(edges) = 5 * args.images + 1

C20_Witness ==
    /\ builder = "create_montage_workflow"
    /\ args.images = 3
    /\ Len(edges) = 16
    /\ Len(TasksOfType("mAdd")[1].dependencies) = 3
    /\ EdgeSources(IdsOfType("mBackground")[2]) = {IdsOfType("mBgModel")[2]}

----------------------------------------------------------------------------
(* Properties of the resource builders and of the sizes *)

\* the VM instances of a type in the pool
TierCount(vms, type) ==
    Cardinality({k \in DOMAIN vms : vms[k].type = type})

\* the tiers of the archetype builder b, in the order of its table
TiersOf(b) ==
    CASE b = "create_montage_workflow" ->
             [k \in DOMAIN MontageVmConfigs |-> MontageVmConfigs[k].type]
      [] b = "create_cybershake_workflow" ->
             [k \in DOMAIN CyberShakeVmConfigs |-> CyberShakeVmConfigs[k].type]
      [] b = "create_ligo_workflow" ->
             [k \in DOMAIN LigoVmConfigs |-> LigoVmConfigs[k].type]
      [] b = "create_epigenomics_workflow" ->
             [k \in DOMAIN EpigenomicsVmConfigs |-> EpigenomicsVmConfigs[k].type]

\* the instances per tier that the resource builder of b creates when it is
\* handed the task count jobs
PoolCounts(b, jobs) ==
    CASE b = "create_montage_workflow" -> MontageVmDistribution(jobs)
      [] b = "create_cybershake_workflow" -> CyberShakeVmDistribution(jobs)
      [] b = "create_ligo_workflow" ->
             [k \in DOMAIN LigoVmConfigs |-> LigoVmConfigs[k].count]
      [] b = "create_epigenomics_workflow" ->
             [k \in DOMAIN EpigenomicsVmConfigs |-> EpigenomicsVmConfigs[k].count]

\* C21: in the resource builder of every archetype, each tier has a divisor
\* d with count(tier) = max(1, total_tasks div d) whatever the task count:
\* the pool of the run has that many instances of the tier, every tier has at
\* least one, and a larger task count never gives fewer.
C21_TierCountsByDivision ==
    builder \in ArchetypeBuilders =>
        \A k \in DOMAIN TiersOf(builder) :
            /\ TierCount(vm_instances, TiersOf(builder)[k])
                  = PoolCounts(builder, total_jobs)[k]
            /\ TierCount(vm_instances, TiersOf(builder)[k]) >= 1
            /\ \A jobs \in 1 .. 60 :
                  PoolCounts(builder, jobs)[k] <= PoolCounts(builder, jobs + 1)[k]
            /\ \E d \in 1 .. 60 :
                  /\ TierCount(vm_instances, TiersOf(builder)[k])
                        = Max(1, total_jobs \div d)
                  /\ \A jobs \in 1 .. 60 :
                        PoolCounts(builder, jobs)[k] = Max(1, jobs \div d)

\* the bandwidth table that the resource builder of b uses
MatrixKind(b) ==
    CASE b = "create_montage_workflow" -> "montage"
      [] b = "create_cybershake_workflow" -> "cybershake"
      [] b = "create_ligo_workflow" -> "ligo"
      [] b = "create_epigenomics_workflow" -> "epigenomics"

\* the ends of the range of cell (i, j) of the run's matrix: what is written
\* for the least and for the greatest draw
RangeLow(i, j) ==
    Bandwidth(MatrixKind(builder), i, j, vm_instances[i], vm_instances[j], 0).num
RangeHigh(i, j) ==
    Bandwidth(MatrixKind(builder), i, j, vm_instances[i], vm_instances[j],
              RandMod - 1).num

\* VM i is of a tier whose pairs inside the tier use the lowest range of the
\* table while its pairs with VM k, an accelerator or memory VM, use the
\* next one: a LIGO CPU tier other than cpu_ultra against a GPU tier, an
\* Epigenomics bio tier other than bio_ultra against a mem tier
PlainAgainstSpecial(i, k) ==
    \/ /\ builder = "create_ligo_workflow"
       /\ vm_instances[i].type \in {"cpu_intensive", "cpu_medium", "cpu_high"}
       /\ vm_instances[k].type \in {"gpu_standard", "gpu_high"}
    \/ /\ builder = "create_epigenomics_workflow"
       /\ vm_instances[i].type \in {"bio_standard", "bio_medium", "bio_high"}
       /\ vm_instances[k].type \in {"mem_intensive", "mem_ultra"}

\* the VMs of the tier of VM i other than i, and the VMs of the other tiers
SameTier(i) ==
    {j \in DOMAIN vm_instances \ {i} :
        vm_instances[j].type = vm_instances[i].type}
OtherTiers(i) ==
    {k \in DOMAIN vm_instances : vm_instances[k].type # vm_instances[i].type}

\* the ranges, as <<low, high>>, of the pairs of VM i with the VMs of K
RangesWith(i, K) == {<<RangeLow(i, k), RangeHigh(i, k)>> : k \in K}

\* C22 as stated: in every archetype's bandwidth matrix and for every VM i,
\* the range of a pair (i, j) with j of the tier of i is not lower than the
\* range of a pair (i, k) with k of another tier, at either end.
C22_SameTierNotLower ==
    builder \in ArchetypeBuilders =>
        \A i \in DOMAIN vm_instances :
            \A same \in RangesWith(i, SameTier(i)) :
                \A other \in RangesWith(i, OtherTiers(i)) :
                    /\ same[1] >= other[1]
                    /\ same[2] >= other[2]

\* C22 amended: the same, except for a VM i of a LIGO CPU tier other than
\* cpu_ultra paired with a GPU VM k, and of an Epigenomics bio tier other
\* than bio_ultra paired with a mem VM k: there the range of (i, k) is the
\* higher one at both ends.
C22_SameTierNotLowerButPlain ==
    builder \in ArchetypeBuilders =>
        \A i \in DOMAIN vm_instances :
            \A same \in RangesWith(i, SameTier(i)) :
                /\ \A other \in RangesWith(i, {k \in OtherTiers(i) :
                                                  ~PlainAgainstSpecial(i, k)}) :
                       /\ same[1] >= other[1]
                       /\ same[2] >= other[2]
                /\ \A other \in RangesWith(i, {k \in OtherTiers(i) :
                                                  PlainAgainstSpecial(i, k)}) :
                       /\ same[1] < other[1]
                       /\ same[2] < other[2]

C22_Witness ==
    /\ builder = "create_ligo_workflow"
    /\ \E i, j, k \in DOMAIN vm_instances :
          /\ i # j
          /\ vm_instances[i].type = "cpu_ultra"
          /\ vm_instances[j].type = "cpu_ultra"
          /\ vm_instances[k].type = "gpu_high"
          /\ RangeLow(i, j) > RangeLow(i, k)
    /\ \E i, j, k \in DOMAIN vm_instances :
          /\ i # j
          /\ vm_instances[j].type = vm_instances[i].type
          /\ PlainAgainstSpecial(i, k)
          /\ RangeHigh(i, j) < RangeHigh(i, k)

\* the sizes of the tasks of a type: in the builder's list ts, and in the
\* data lines of its task.csv (line k is the line of task k)
SizesOfType(ts, lines, type) ==
    {<<ts[k].size, lines[k][2]>> : k \in {i \in DOMAIN ts : ts[i].type = type}}

\* every line of task.csv names the task of its place
LinesNameTasks(ts, lines) ==
    /\ Len(lines) = Len(ts)
    /\ \A k \in DOMAIN ts : lines[k][1] = TaskName(ts[k].id)

\* C23: in the four fixed-duration builders the size written for a task
\* depends on its type alone (two tasks of a type have the same size, in the
\* task list and in task.csv), and two runs with the same parameters leave
\* the same task.csv and dag.csv whatever their random draws were.
C23_SizesByTypeOnly ==
    builder \in ArchetypeBuilders =>
        /\ LinesNameTasks(tasks, DataLines(files["task.csv"]))
        /\ \A type \in {tasks[k].type : k \in DOMAIN tasks} :
              Cardinality(SizesOfType(tasks, DataLines(files["task.csv"]), type)) = 1
        /\ (runs >= 2 /\ prev.prog = prog /\ prev.args = args
              /\ prev.exit_status = 0)
             => /\ files["task.csv"] = prev.files["task.csv"]
                /\ files["dag.csv"] = prev.files["dag.csv"]

C23_Witness ==
    /\ builder = "create_epigenomics_workflow"
    /\ runs >= 2 /\ prev.prog = prog /\ prev.args = args /\ prev.exit_status = 0
    /\ args.samples >= 2
    /\ files["vm.csv"] # prev.files["vm.csv"]
    /\ files["task.csv"] = prev.files["task.csv"]
    /\ Cardinality({k \in DOMAIN tasks : tasks[k].type = "Alignment"}) >= 2

\* vm.csv is a header of n ids, vm1 .. vmn, and n rows, row i under the i-th
\* id and with n values
VmCsvSquare(vm_csv, n) ==
    /\ Len(vm_csv) = n + 1
    /\ vm_csv[1] = <<Hash>> \o [k \in 1 .. n |-> VmName(k)]
    /\ \A i \in 1 .. n :
          /\ Len(vm_csv[i + 1]) = n + 1
          /\ vm_csv[i + 1][1] = vm_csv[1][i + 1]
          /\ \A j \in 1 .. n : vm_csv[i + 1][j + 1].pfx = ""

\* the capacity rows are n, one for every id of the header and in its order
CapacityRows(rows, vm_csv, n) ==
    /\ Len(rows) = n
    /\ \A k \in 1 .. n :
          /\ Len(rows[k]) = 2
          /\ rows[k][1] = vm_csv[1][k + 1]
          /\ rows[k][2].pfx = ""

\* C25: after a resource builder, vm.csv is one header of N VM ids and then
\* N rows, row i labelled with the i-th id and holding N bandwidth values;
\* processing_capacity.csv has one capacity row for each of the N ids, in the
\* same order; the ids are vm1 .. vmN, without a gap between the tiers.
C25_VmFilesShape ==
    (builder # "none" /\ phase = "generate") =>
        /\ VmCsvSquare(files["vm.csv"], Len(vm_instances))
        /\ CapacityRows(DataLines(files["processing_capacity.csv"]),
                        files["vm.csv"], Len(vm_instances))
        /\ \A k \in DOMAIN vm_instances : vm_instances[k].vm_id = k

C25_Witness ==
    /\ builder = "create_epigenomics_workflow"
    /\ phase = "generate"
    /\ Len(vm_instances) = 38
    /\ vm_instances[7].type = "bio_medium"
    /\ files["vm.csv"][8][1] = VmName(7)
    /\ Len(files["vm.csv"][39]) = 39
    /\ Len(files["processing_capacity.csv"]) = 39
    /\ files["processing_capacity.csv"][8][1] = VmName(7)

----------------------------------------------------------------------------
(* Properties of the analysis on graphs with a cycle *)

\* the pairs joined by a path of one or more loaded edges
LoadedPaths == PathPairs({LoadedEdges[k] : k \in DOMAIN LoadedEdges}, Len(LoadedEdges))

\* a path leads from a root (a task of task.csv with no edge into it) to a
\* node that lies on a cycle
CycleBelowRoot ==
    \E r \in TaskKeys(LoadedTasks) :
        /\ \A k \in DOMAIN LoadedEdges : LoadedEdges[k][2] # r
        /\ \E c \in {LoadedEdges[k][2] : k \in DOMAIN LoadedEdges} :
              <<r, c>> \in LoadedPaths /\ <<c, c>> \in LoadedPaths

\* C27: analyze_dag_structure, called on the loaded files, returns on every
\* input, and when a cycle can be reached from a root the analysis it
\* returns has is_dag False.
C27_AnalysisReturns ==
    analysis.state \in {"done", "hung"} =>
        /\ analysis.state = "done"
        /\ CycleBelowRoot => ~analysis.is_dag

----------------------------------------------------------------------------
(* Properties of the end of each workflow and of its size *)

\* the task ids without an edge out of them
Sinks == {tasks[k].id : k \in DOMAIN tasks} \ {edges[e][1] : e \in DOMAIN edges}

\* R and the ids with an edge into R
Grow(R) == R \cup {edges[e][1] : e \in {f \in DOMAIN edges : edges[f][2] \in R}}

\* the ids from which a path of edges leads into R (R included): R grown
\* until it grows no more
RECURSIVE Ancestors(_, _)
Ancestors(R, grown) == IF grown = R THEN R ELSE Ancestors(grown, Grow(grown))

\* the type of the task every archetype creates last
LastType(b) ==
    CASE b = "create_montage_workflow" -> "mJPEG"
      [] b = "create_cybershake_workflow" -> "PostProcess"
      [] b = "create_ligo_workflow" -> "PostProcess"
      [] b = "create_epigenomics_workflow" -> "FinalReport"

\* C28: the workflow of an archetype builder has exactly one task without
\* successors, the task created last (id N, of type mJPEG, PostProcess,
\* PostProcess or FinalReport), and a directed path leads from every other
\* task to it.
C28_SingleSink ==
    builder \in ArchetypeBuilders =>
        /\ Sinks = {Len(tasks)}
        /\ tasks[Len(tasks)].id = Len(tasks)
        /\ tasks[Len(tasks)].type = LastType(builder)
        /\ Ancestors({}, {Len(tasks)}) = {tasks[k].id : k \in DOMAIN tasks}

C28_Witness ==
    /\ builder = "create_epigenomics_workflow"
    /\ args.samples = 3
    /\ Sinks = {Len(tasks)}
    /\ IdsOfType("Annotation")[3] \in Ancestors({}, {Len(tasks)})
    /\ IdsOfType("Annotation")[3] \notin Grow({Len(tasks)})
    /\ Cardinality(Ancestors({}, {Len(tasks)})) = Len(tasks)

\* C29: the total_jobs that an archetype builder computes from its size
\* parameters before it creates a task, and hands to its resource builder,
\* is the number of tasks it then creates and returns.
C29_TotalJobsIsTaskCount ==
    builder \in ArchetypeBuilders => total_jobs = Len(tasks)

C29_Witness ==
    /\ builder = "create_ligo_workflow"
    /\ args.segments = 11 /\ args.templates = 2
    /\ total_jobs = 41
    /\ Len(tasks) = 41
    /\ CountType("Injection") = 1
    /\ CountType("Coincidence") = 3

----------------------------------------------------------------------------
(* Properties of the CCR analysis *)

\* C30: in analyze_ccr_impact the working directory at the start of every
\* turn of the loop, and when the loop is left, is the one at entry:
\* run_algorithm_and_get_results restores it however it ends (compile
\* failure, run failure, no metric, success, exception), so that every
\* create_montage_workflow_ccr resolves ../data from the same directory.
C30_WorkingDirectoryRestored ==
    impact.pc \in {"loop", "done", "raised"} => cwd = impact.entry

C30_Witness ==
    /\ impact.pc = "loop"
    /\ impact.i = 1
    /\ impact.i < args.num_points
    /\ impact.outcome = "run_error"
    /\ builder = "create_montage_workflow_ccr"
    /\ cwd = "generators"
    /\ impact.entry = "generators"

\* the first two fields of every line of a dag.csv
EndpointsOf(lines) == [k \in DOMAIN lines |-> SubSeq(lines[k], 1, 2)]

\* what a second run res has in common with the run that left the state:
\* task ids and sizes, VM ids and capacities, the files but for the third
\* field of the lines of dag.csv
SameTasksAndVms(res) ==
    /\ [k \in DOMAIN res.tasks |-> <<res.tasks[k].id, res.tasks[k].size>>]
         = [k \in DOMAIN tasks |-> <<tasks[k].id, tasks[k].size>>]
    /\ res.vm_instances = vm_instances
    /\ \A f \in {"task.csv", "vm.csv", "processing_capacity.csv"} :
           res.files[f] = files[f]
    /\ EndpointsOf(res.files["dag.csv"]) = EndpointsOf(files["dag.csv"])

\* the edges of a second run res of workflow_to_csv join the same tasks, and
\* its bandwidth list is the same
SameEdgesAndBandwidth(res) ==
    /\ Len(res.edges) = Len(edges)
    /\ \A k \in DOMAIN edges :
           /\ res.edges[k].pred = edges[k].pred
           /\ res.edges[k].succ = edges[k].succ
    /\ res.bandwidth = bandwidths

\* C24: two runs of CCR-calibrated generation (create_montage_workflow_ccr,
\* workflow_to_csv) that differ only in the requested CCR and start from the
\* same generator state produce the same task ids, task sizes, edge
\* endpoints, VM ids, VM capacities and bandwidth values; only the data
\* volumes of the edges may differ.
C24_OnlyVolumesDependOnCcr ==
    /\ (builder = "create_montage_workflow_ccr" /\ impact.pc # "none") =>
          \A ccr \in {400, 1200, 2000} :
              /\ SameTasksAndVms(create_montage_workflow_ccr(
                     args.scale, args.num_vms, ccr, impact.rng0))
              /\ create_montage_workflow_ccr(
                     args.scale, args.num_vms, ccr, impact.rng0).edges = edges
    /\ builder = "workflow_to_csv" =>
          \A ccr \in {500, 2000} :
              /\ SameTasksAndVms(workflow_to_csv(args.workflow, args.num_vms, ccr))
              /\ SameEdgesAndBandwidth(
                     workflow_to_csv(args.workflow, args.num_vms, ccr))

\* a call with CCR 2.0 whose dag.csv is not the one CCR 0.5 gives
C24_Witness ==
    /\ builder = "workflow_to_csv"
    /\ args.ccr = 2000
    /\ Len(edges) = 2
    /\ Len(bandwidths) > 1
    /\ workflow_to_csv(args.workflow, args.num_vms, 500).files["dag.csv"]
         # files["dag.csv"]

\* the float a written token stands for, in thousandths
TokenValue(t) ==
    IF t.dec = 1 THEN t.num * 100 ELSE IF t.dec = 2 THEN t.num * 10 ELSE t.num

\* the sum of the sizes on the lines of a task.csv
RECURSIVE SumWritten(_)
SumWritten(lines) ==
    IF lines = <<>> THEN 0
    ELSE TokenValue(Head(lines)[2]) + SumWritten(Tail(lines))

\* C26: in workflow_to_csv with ccr > 0 and a workflow that is not empty,
\* every edge written to dag.csv has a strictly positive data volume; an
\* edge whose input weight is absent or <= 0 is written with exactly
\* avg_task_size * ccr, avg_task_size being the mean of the sizes written
\* to task.csv; and every size written is strictly positive.
C26_VolumesPositive ==
    (builder = "workflow_to_csv" /\ args.ccr > 0 /\ args.workflow.nodes # <<>>) =>
        /\ Len(files["task.csv"]) = Len(args.workflow.nodes) + 1
        /\ Len(files["dag.csv"]) = Len(args.workflow.edges) + 1
        /\ \A k \in 2 .. Len(files["task.csv"]) :
               TokenValue(files["task.csv"][k][2]) > 0
        /\ \A k \in 2 .. Len(files["dag.csv"]) :
               /\ TokenValue(files["dag.csv"][k][3]) > 0
               /\ (\/ args.workflow.edges[k - 1].weight = <<>>
                   \/ args.workflow.edges[k - 1].weight[1] <= 0) =>
                      TokenValue(files["dag.csv"][k][3])
                        = ((SumWritten(Tail(files["task.csv"]))
                               \div (Len(files["task.csv"]) - 1)) * args.ccr)
                            \div 1000

\* a call with CCR 0.5 on a workflow with a runtime 0, an edge without a
\* weight and an edge of weight 0
C26_Witness ==
    /\ builder = "workflow_to_csv"
    /\ args.ccr = 500
    /\ \E k \in DOMAIN args.workflow.nodes : args.workflow.nodes[k] = <<0>>
    /\ \E k \in DOMAIN args.workflow.edges : args.workflow.edges[k].weight = <<>>
    /\ \E k \in DOMAIN args.workflow.edges : args.workflow.edges[k].weight = <<0>>
    /\ Len(files["dag.csv"]) = 3

====
